---- MODULE Spec2Model ----
(***************************************************************************)
(* Smart-Campus attendance core: the attendance ledger, the rate guard,    *)
(* the face gallery and the recognizer wrapper, as implemented by          *)
(* attendify_pro_v2.py (AttendanceSystem, AnomalyDetector) and by the      *)
(* variants attendify_pro.py, attendify_final.py and the backend           *)
(* FaceRecognitionService.                                                 *)
(***************************************************************************)
EXTENDS Integers, Sequences, FiniteSets, TLC

(***************************************************************************)
(* Bounds of the model                                                     *)
(***************************************************************************)
MaxDay == 1
MaxTick == 4
MaxRestarts == 1
MaxAnomalies == 2
MaxFrames == 3
MaxPersons == 2
MaxStudents == 2
MaxStream == 9
MaxSignals == 1
MaxTimers == 1
MaxDistances == 70
MaxRows == 3
MaxFaces == 2
MaxDrowsy == 21

(***************************************************************************)
(* Program constants                                                       *)
(***************************************************************************)
RateWindow == 300
RateCap == 5
MinSamples == 3
MatchThreshold == 85
FinalMatchThreshold == 80
ImportCap == 20
DaySeconds == 86400
TickSeconds == 100
BlinkThreshold == 2
ClosedFrames == 2
BlinkCooldown == 10
FrameThreshold == 3
EarThreshold == 21
FaceFactorThreshold == 70
RequiredFactors == 2
AttentionEarThreshold == 21
DrowsyFrames == 20

(***************************************************************************)
(* Input universes                                                         *)
(***************************************************************************)
\* student ids have the form PFXnnn (prefix, number), as import builds them
S1 == <<"ALI", 1>>
S2 == <<"BOB", 2>>
Ids == {S1, S2}
Names == {"Alice", "Bob"}
Flags == [face : BOOLEAN, liveness : BOOLEAN, fingerprint : BOOLEAN, qr : BOOLEAN]
Days == 0 .. MaxDay
Threads == {1, 2}
FacePositions == 1 .. MaxFaces

VARIABLES
    variant,             \* which program of the repository is running
    recognizer_ok,       \* LBPH_AVAILABLE: self.recognizer is not None
    now,                 \* wall clock, seconds (time.time / datetime.now)
    attempts,            \* AnomalyDetector.attempts : id -> list of timestamps
    anomalies,           \* AnomalyDetector.anomalies : list
    label_map,           \* AttendanceSystem.label_map : label -> id
    students,            \* AttendanceSystem.students : id -> record
    model,               \* recognizer state: the (label, person) pairs it holds samples of
    attendance_today,    \* AttendanceSystem.attendance_today : id -> record
    attendance_history,  \* AttendanceSystem.attendance_history : day -> list
    data_file,           \* attendance_data/system_data.pkl (data.pkl)
    log_files,           \* attendance_data/log_YYYYMMDD.csv : day -> lines
    model_file,          \* attendance_data/face_model.yml
    restarts,            \* number of process restarts so far
    threads,             \* callers inside mark_attendance or enroll_student: their position and locals
    result,              \* what the last call returned
    liveness,            \* LivenessDetector: its counters
    frames_seen,         \* the frames handed to the detector since it was constructed or reset
    blink,               \* what detect_blink last returned
    qr_issued,           \* the QR code last handed out by generate_daily_qr
    disk_writable,       \* whether open(..., 'wb') / open(..., 'a') in the data directory succeeds
    current_student,     \* AttendifyProV2.current_student (None: NoId)
    verification_state,  \* AttendifyProV2.verification_state
    fingerprint_timers,  \* the QTimer.singleShot timers of simulate_fingerprint not yet fired
    flag_owner,          \* for each factor flag that is set, the current_student it was set under
    video_worker,        \* AttendifyProV2.video_worker: the VideoWorker and its thread
    gui_thread,          \* where the GUI thread is: in the event loop or inside VideoWorker.stop
    signals,             \* frame_ready signals queued for the GUI thread
    attendance_csv,      \* backend data/attendance.csv: whether it exists, and its lines
    consecutive_drowsy,  \* AttentionTracker.consecutive_drowsy
    low_ear_run,         \* for each face position, the frames in a row its face had a low EAR
    run2_attempts,       \* AnomalyDetector.attempts of a second run of the same program
    run2_today,          \* the identities in attendance_today of the second run
    run2_result          \* what the second run's latest compared mark_attendance returned

vars == <<variant, recognizer_ok, now, attempts, anomalies, label_map, students, model,
          attendance_today, attendance_history, data_file, log_files, model_file,
          restarts, threads, result, liveness, frames_seen, blink,
          qr_issued, disk_writable, current_student, verification_state,
          fingerprint_timers, flag_owner, video_worker,
          gui_thread, signals, attendance_csv, consecutive_drowsy, low_ear_run,
          run2_attempts, run2_today, run2_result>>

\* the state of the backend services, which the desktop programs leave alone
serviceVars == <<attendance_csv, consecutive_drowsy, low_ear_run>>

\* a second run of attendify_pro_v2, kept beside the first to compare outcomes
run2Vars == <<run2_attempts, run2_today, run2_result>>

backendVars == <<serviceVars, run2Vars>>

\* the liveness detector of the capture session
liveVars == <<liveness, frames_seen, blink>>

\* the capture session, which the operations of AttendanceSystem leave alone
\* the verification panel of the GUI
guiVars == <<current_student, verification_state, fingerprint_timers, flag_owner>>

\* the capture thread, the GUI thread and the signals between them
workerVars == <<video_worker, gui_thread, signals>>

sessionVars == <<liveVars, qr_issued, guiVars, workerVars>>

\* the build, and the concurrent callers that the sequential operations leave alone
buildVars == <<variant, recognizer_ok, backendVars, threads, sessionVars, disk_writable>>

\* the state of AttendanceSystem, its files and the clock
systemVars == <<variant, recognizer_ok, backendVars, now, attempts, anomalies, label_map, students, model,
                attendance_today, attendance_history, data_file, log_files, model_file,
                restarts, threads, result, disk_writable>>

clockVars == <<now>>
guardVars == <<attempts, anomalies>>
galleryVars == <<label_map, students, model>>
ledgerVars == <<attendance_today, attendance_history>>
diskVars == <<data_file, log_files, model_file>>

\* the empty dict, and None
EmptyMap == <<>>
NoId == <<>>

Today == now \div DaySeconds
TimeOfDay == now % DaySeconds

EmptyHistory == [d \in Days |-> <<>>]

(***************************************************************************)
(* AnomalyDetector                                                         *)
(***************************************************************************)
\* the filter of check_rate_limit's list comprehension: now - t < 300
InWindow_Inclusive(t, x) == t - x <= RateWindow
InWindow(t, x) == t - x < RateWindow

PruneWindow(ts, t) == SelectSeq(ts, LAMBDA x : InWindow(t, x))

\* len(self.attempts[student_id]) >= 5
OverCap_Off(ts) == Len(ts) > RateCap
OverCap(ts) == Len(ts) >= RateCap

RateLimited(id) == OverCap(PruneWindow(attempts[id], now))

\* the attempt list check_rate_limit leaves when it denies at time t: the
\* pruned list; mark_attendance then returns without record_attempt
Denied_Recorded(pruned, t) == Append(pruned, t)
Denied(pruned, t) == pruned

\* log_anomaly
AnomalyEntry(id, atype) == [timestamp |-> now, student_id |-> id, type |-> atype]

\* get_recent_anomalies: self.anomalies[-count:][::-1]
RECURSIVE Reverse(_)
Reverse(s) == IF s = <<>> THEN <<>> ELSE Append(Reverse(Tail(s)), Head(s))

\* Python's s[-count:] : count = 0 gives s[0:], the whole list
LastSlice(s, count) ==
    IF count = 0 \/ count >= Len(s) THEN s
    ELSE SubSeq(s, Len(s) - count + 1, Len(s))

get_recent_anomalies(count) == Reverse(LastSlice(anomalies, count))

\* what a call of get_recent_anomalies(count) returned
AnomaliesRet(count, entries) ==
    [op |-> "anomalies", id |-> NoId, ok |-> TRUE, msg |-> "", sid |-> NoId, conf |-> 0,
     matcher |-> FALSE, count |-> count, entries |-> entries]

\* a caller asks for the recent anomalies
recent_anomalies(count) ==
    /\ variant = "pro_v2"
    /\ result' = AnomaliesRet(count, get_recent_anomalies(count))
    /\ UNCHANGED <<variant, recognizer_ok, backendVars, now, attempts, anomalies, label_map, students,
                   model, attendance_today, attendance_history, data_file, log_files,
                   model_file, restarts, threads, disk_writable, sessionVars>>

(***************************************************************************)
(* Persistence                                                             *)
(***************************************************************************)
NoDataFile == [exists |-> FALSE, labels |-> EmptyMap, students |-> EmptyMap,
               history |-> EmptyHistory]
NoModelFile == [exists |-> FALSE, samples |-> {}]

\* _save_data: pickle labels, students, history; write the model when the
\* label map is not empty
SavedData_NoHistory(lm, st, hist) ==
    [exists |-> TRUE, labels |-> lm, students |-> st, history |-> [d \in DOMAIN hist |-> <<>>]]

SavedData(lm, st, hist) ==
    [exists |-> TRUE, labels |-> lm, students |-> st, history |-> hist]

SavedModel(lm, m) ==
    IF lm # EmptyMap THEN [exists |-> TRUE, samples |-> m] ELSE model_file

(***************************************************************************)
(* Ledger                                                                  *)
(***************************************************************************)
Weight(b, w) == IF b THEN w ELSE 0

\* the sum over the four factors, in mark_attendance and in mark
Score_QrAsLiveness(f) == Weight(f.face, 30) + Weight(f.liveness, 25)
                         + Weight(f.fingerprint, 25) + Weight(f.qr, 25)
Score(f) == Weight(f.face, 30) + Weight(f.liveness, 25)
            + Weight(f.fingerprint, 25) + Weight(f.qr, 20)

\* AttendifyProV2.update_score: the score shown for the verification state
update_score(vs) == Weight(vs.face, 30) + Weight(vs.liveness, 25)
                    + Weight(vs.fingerprint, 25) + Weight(vs.qr, 20)

\* student_id in self.attendance_today
AlreadyMarkedToday_Never(id) == FALSE
AlreadyMarkedToday_Anyone(id) == attendance_today # EmptyMap
AlreadyMarkedToday(id) == id \in DOMAIN attendance_today

\* not factors.get('face')
FaceMissing_Never(f) == FALSE
FaceMissing_NoFactor(f) == ~(f.face \/ f.liveness \/ f.fingerprint \/ f.qr)
FaceMissing(f) == ~f.face

NameOf(id) == IF id \in DOMAIN students THEN students[id].name ELSE "Unknown"

Ret(op, id, ok, msg) ==
    [op |-> op, id |-> id, ok |-> ok, msg |-> msg, sid |-> NoId, conf |-> 0,
     matcher |-> FALSE]

\* what recognize_face returns: (student_id or None, confidence); matcher
\* tells whether recognizer.predict was called; conf is in tenths of a percent
RecRet(sid, conf, matcher) ==
    [op |-> "recognize", id |-> NoId, ok |-> sid # NoId, msg |-> "", sid |-> sid,
     conf |-> conf, matcher |-> matcher]

\* a call that ended in an exception instead of a return value: KeyError of
\* self.students[sid], OSError of open() in _save_data
Raise(op, id, exc) == Ret(op, id, FALSE, exc)
IsRaise(r) == r.msg \in {"KeyError", "OSError"}

\* AttendanceSystem.mark_attendance (attendify_pro_v2.py); _save_data opens
\* system_data.pkl outside any try, so a failing open() leaves the call by
\* an exception after the in-memory updates
mark_attendance_body(id, f) ==
    LET pruned == PruneWindow(attempts[id], now) IN
    /\ variant = "pro_v2"
    /\ UNCHANGED <<variant, recognizer_ok, serviceVars, threads, disk_writable, now, galleryVars, restarts>>
    /\ IF OverCap(pruned)
       THEN /\ Len(anomalies) < MaxAnomalies
            /\ attempts' = [attempts EXCEPT ![id] = Denied(pruned, now)]
            /\ anomalies' = Append(anomalies, AnomalyEntry(id, "RATE_LIMIT"))
            /\ result' = Ret("mark", id, FALSE, "RateLimited")
            /\ UNCHANGED <<ledgerVars, diskVars>>
       ELSE IF AlreadyMarkedToday(id)
       THEN /\ attempts' = [attempts EXCEPT ![id] = pruned]
            /\ result' = Ret("mark", id, FALSE, "AlreadyMarked")
            /\ UNCHANGED <<anomalies, ledgerVars, diskVars>>
       ELSE IF FaceMissing(f)
       THEN /\ attempts' = [attempts EXCEPT ![id] = Append(pruned, now)]
            /\ result' = Ret("mark", id, FALSE, "FaceRequired")
            /\ UNCHANGED <<anomalies, ledgerVars, diskVars>>
       ELSE LET rec == [student_id |-> id, time |-> TimeOfDay, score |-> Score(f)]
                hist == [attendance_history EXCEPT ![Today] = Append(@, rec)]
            IN /\ attendance_today' = (id :> [name |-> NameOf(id), time |-> TimeOfDay,
                                              score |-> Score(f)]) @@ attendance_today
               /\ attendance_history' = hist
               /\ attempts' = [attempts EXCEPT ![id] = Append(pruned, now)]
               /\ IF disk_writable
                  THEN /\ data_file' = SavedData(label_map, students, hist)
                       /\ model_file' = SavedModel(label_map, model)
                       /\ result' = Ret("mark", id, TRUE, "Verified")
                  ELSE /\ result' = Raise("mark", id, "OSError")
                       /\ UNCHANGED <<data_file, model_file>>
               /\ UNCHANGED <<anomalies, log_files>>

\* mark_attendance called on its own: the capture session is left alone
mark_attendance(id, f) == mark_attendance_body(id, f) /\ UNCHANGED <<sessionVars, run2Vars>>

\* AttendanceDB.mark (attendify_final.py): no rate guard; the record goes to
\* the per-day csv log; self.students[sid] raises KeyError for an unknown sid
mark(id, f) ==
    /\ variant = "final"
    /\ UNCHANGED <<buildVars, now, guardVars, galleryVars, attendance_history,
                   data_file, model_file, restarts>>
    /\ IF AlreadyMarkedToday(id)
       THEN /\ result' = Ret("mark", id, FALSE, "AlreadyMarked")
            /\ UNCHANGED <<attendance_today, log_files>>
       ELSE IF FaceMissing(f)
       THEN /\ result' = Ret("mark", id, FALSE, "FaceRequired")
            /\ UNCHANGED <<attendance_today, log_files>>
       ELSE IF id \notin DOMAIN students
       THEN /\ result' = Ret("mark", id, FALSE, "KeyError")
            /\ UNCHANGED <<attendance_today, log_files>>
       ELSE /\ attendance_today' = (id :> [name |-> students[id].name, time |-> TimeOfDay,
                                           score |-> Score(f)]) @@ attendance_today
            /\ log_files' = [log_files EXCEPT ![Today] =
                  Append(@, [student_id |-> id, time |-> TimeOfDay, score |-> Score(f)])]
            /\ result' = Ret("mark", id, TRUE, "Marked")

(***************************************************************************)
(* Gallery and recognizer                                                  *)
(***************************************************************************)
StudentRec(name) == [name |-> name]

Max(S) == CHOOSE x \in S : \A y \in S : y <= x
Min2(a, b) == IF a <= b THEN a ELSE b

\* max(self.label_map.keys(), default=-1) + 1
NextLabel_Reuse(lm) == IF DOMAIN lm = {} THEN 0 ELSE Max(DOMAIN lm)
NextLabel(lm) == IF DOMAIN lm = {} THEN 0 ELSE Max(DOMAIN lm) + 1

\* len(faces) < 3
TooFewSamples_Two(n) == n < 2
TooFewSamples(n) == n < MinSamples

\* student_id in self.students
IsEnrolled(id) == id \in DOMAIN students

\* the samples of one person handed to the matcher under one label
Batch(label, owner) == [label |-> label, owner |-> owner]

\* recognizer.update adds to the trained state, recognizer.train replaces it
Trained_AlwaysFull(incremental, batches) == batches
Trained(incremental, batches) == IF incremental THEN model \cup batches ELSE batches

\* if self.label_map: recognizer.update(...) else: recognizer.train(...)
EnrollIncremental == label_map # EmptyMap

\* if self.label_map and len(self.label_map) > imported, on the label map
\* the import loop has left
ImportIncremental(lm, imported) == lm # EmptyMap /\ Cardinality(DOMAIN lm) > imported

\* AttendanceSystem.enroll_student (attendify_pro_v2.py); valid is the number
\* of frames in which a face was detected, train_ok whether the matcher
\* trained without raising
enroll_student(id, name, valid, train_ok) ==
    LET label == NextLabel(label_map)
        lm == (label :> id) @@ label_map
        st == (id :> StudentRec(name)) @@ students
        m == Trained(EnrollIncremental, {Batch(label, id)})
    IN /\ variant = "pro_v2"
       /\ UNCHANGED <<buildVars, now, guardVars, ledgerVars, log_files, restarts>>
       /\ IF ~recognizer_ok
          THEN /\ result' = Ret("enroll", id, FALSE, "RecognitionUnavailable")
               /\ UNCHANGED <<galleryVars, data_file, model_file>>
          ELSE IF IsEnrolled(id)
          THEN /\ result' = Ret("enroll", id, FALSE, "DuplicateIdentity")
               /\ UNCHANGED <<galleryVars, data_file, model_file>>
          ELSE IF TooFewSamples(valid)
          THEN /\ result' = Ret("enroll", id, FALSE, "InsufficientSamples")
               /\ UNCHANGED <<galleryVars, data_file, model_file>>
          ELSE IF ~train_ok
          THEN /\ result' = Ret("enroll", id, FALSE, "MatcherError")
               /\ UNCHANGED <<galleryVars, data_file, model_file>>
          ELSE /\ Cardinality(DOMAIN st) <= MaxStudents
               /\ label_map' = lm
               /\ students' = st
               /\ model' = m
               /\ IF disk_writable
                  THEN /\ data_file' = SavedData(lm, st, attendance_history)
                       /\ model_file' = [exists |-> TRUE, samples |-> m]
                       /\ result' = Ret("enroll", id, TRUE, "Enrolled")
                  ELSE /\ result' = Raise("enroll", id, "OSError")
                       /\ UNCHANGED <<data_file, model_file>>

\* AttendanceSystem.enroll_student (attendify_pro.py): no check for an
\* identity that is already enrolled; the student record keeps its label
enroll_student_pro(id, name, valid, train_ok) ==
    LET label == NextLabel(label_map)
        lm == (label :> id) @@ label_map
        st == [x \in DOMAIN students \cup {id} |->
                 IF x = id THEN [name |-> name, face_label |-> label] ELSE students[x]]
        m == Trained(label_map # EmptyMap, {Batch(label, id)})
    IN /\ variant = "pro"
       /\ UNCHANGED <<buildVars, now, guardVars, ledgerVars, log_files, restarts>>
       /\ IF ~recognizer_ok
          THEN /\ result' = Ret("enroll", id, FALSE, "RecognitionUnavailable")
               /\ UNCHANGED <<galleryVars, data_file, model_file>>
          ELSE IF TooFewSamples(valid)
          THEN /\ result' = Ret("enroll", id, FALSE, "InsufficientSamples")
               /\ UNCHANGED <<galleryVars, data_file, model_file>>
          ELSE IF ~train_ok
          THEN /\ result' = Ret("enroll", id, FALSE, "MatcherError")
               /\ UNCHANGED <<galleryVars, data_file, model_file>>
          ELSE /\ Cardinality(DOMAIN lm) <= MaxStudents
               /\ label_map' = lm
               /\ students' = st
               /\ model' = m
               /\ IF disk_writable
                  THEN /\ data_file' = SavedData(lm, st, attendance_history)
                       /\ model_file' = [exists |-> TRUE, samples |-> m]
                       /\ result' = Ret("enroll", id, TRUE, "Enrolled")
                  ELSE /\ result' = Raise("enroll", id, "OSError")
                       /\ UNCHANGED <<data_file, model_file>>

\* person_folder.name.title(), and name.upper()[:3]
TitleName(folder_name) ==
    CASE folder_name = "alice" -> "Alice"
      [] folder_name = "bob" -> "Bob"
      [] OTHER -> "Carol"

Prefix(name) ==
    CASE name = "Alice" -> "ALI"
      [] name = "Bob" -> "BOB"
      [] OTHER -> "CAR"

\* name.upper()[:3] + str(len(self.students) + 1).zfill(3)
ImportId(name, st) == <<Prefix(name), Cardinality(DOMAIN st) + 1>>

\* the loop of import_existing_data over the person folders, in iteration
\* order; acc holds label_map, students, imported and all_faces/all_labels
RECURSIVE ImportLoop(_, _)
ImportLoop(persons, acc) ==
    IF persons = <<>> THEN acc
    ELSE LET p == Head(persons)
             name == TitleName(p.name)
             sid == ImportId(name, acc.st)
             label == NextLabel(acc.lm)
             n == Min2(p.faces, ImportCap)
             faces == IF n > 0 THEN acc.faces \cup {Batch(label, sid)} ELSE acc.faces
         IN IF sid \in DOMAIN acc.st
            THEN ImportLoop(Tail(persons), acc)
            ELSE IF TooFewSamples(n)
            THEN ImportLoop(Tail(persons), [acc EXCEPT !.faces = faces])
            ELSE ImportLoop(Tail(persons),
                    [lm |-> (label :> sid) @@ acc.lm,
                     st |-> (sid :> StudentRec(name)) @@ acc.st,
                     imported |-> acc.imported + 1,
                     faces |-> faces])

\* AttendanceSystem.import_existing_data (attendify_pro_v2.py); found tells
\* whether the folder exists
import_existing_data(found, persons, train_ok) ==
    LET r == ImportLoop(persons, [lm |-> label_map, st |-> students, imported |-> 0,
                                  faces |-> {}])
        incremental == ImportIncremental(r.lm, r.imported)
        m == Trained(incremental, r.faces)
    IN /\ variant = "pro_v2"
       /\ UNCHANGED <<buildVars, now, guardVars, ledgerVars, log_files, restarts>>
       /\ IF ~found
          THEN /\ result' = Ret("import", NoId, FALSE, "FolderNotFound")
               /\ UNCHANGED <<galleryVars, data_file, model_file>>
          ELSE /\ Cardinality(DOMAIN r.st) <= MaxStudents
               /\ label_map' = r.lm
               /\ students' = r.st
               /\ IF r.faces = {}
                  THEN /\ result' = Ret("import", NoId, TRUE, "Imported")
                       /\ UNCHANGED <<model, data_file, model_file>>
                  ELSE IF ~(train_ok /\ recognizer_ok)
                  THEN /\ result' = Ret("import", NoId, FALSE, "MatcherError")
                       /\ UNCHANGED <<model, data_file, model_file>>
                  ELSE /\ model' = m
                       /\ IF disk_writable
                          THEN /\ data_file' = SavedData(r.lm, r.st, attendance_history)
                               /\ model_file' = IF r.lm # EmptyMap
                                                THEN [exists |-> TRUE, samples |-> m]
                                                ELSE model_file
                               /\ result' = Ret("import", NoId, TRUE, "Imported")
                          ELSE /\ result' = Raise("import", NoId, "OSError")
                               /\ UNCHANGED <<data_file, model_file>>

\* what recognizer.predict can answer: it raises when nothing was trained,
\* otherwise it names a trained label with some distance (in tenths)
Distances == {0, 425, 849, 850, 1200}

ModelLabels == {b.label : b \in model}

\* conf < 85
Accept_Always(d) == TRUE
Accept(d) == d < MatchThreshold * 10

\* int(x) for x in tenths: truncation toward zero
IntOf(x) == IF x >= 0 THEN (x \div 10) * 10 ELSE 0 - (((0 - x) \div 10) * 10)

\* int(max(0, 100 - conf)), in tenths of a percent
Confidence_Rounded(d) == IF 1000 - d > 0 THEN ((1000 - d + 5) \div 10) * 10 ELSE 0
Confidence(d) == IF 1000 - d > 0 THEN ((1000 - d) \div 10) * 10 ELSE 0

\* AttendanceSystem.recognize_face (attendify_pro_v2.py) and the identical
\* FaceSystem.recognize (attendify_desktop.py); raises tells whether
\* preprocess_face or predict raised
RecognizeFace(raises, label, d) ==
    IF ~recognizer_ok \/ label_map = EmptyMap
    THEN RecRet(NoId, 0, FALSE)
    ELSE IF raises \/ label \notin ModelLabels
    THEN RecRet(NoId, 0, TRUE)
    ELSE IF label \in DOMAIN label_map /\ Accept(d)
    THEN RecRet(label_map[label], Confidence(d), TRUE)
    ELSE RecRet(NoId, 0, TRUE)

recognize_face(raises, label, d) ==
    /\ variant \in {"pro_v2", "desktop"}
    /\ UNCHANGED <<buildVars, now, guardVars, galleryVars, ledgerVars, diskVars, restarts>>
    /\ result' = RecognizeFace(raises, label, d)

\* int(100 - conf) of AttendanceDB.recognize, in tenths of a percent
ConfidenceFinal(d) == IntOf(1000 - d)

\* AttendanceDB.recognize (attendify_final.py): the threshold is 80 and
\* self.students[sid] raises KeyError, caught by the bare except, for a
\* label whose identity has no student record
RecognizeFinal(raises, label, d) ==
    IF ~recognizer_ok \/ label_map = EmptyMap
    THEN RecRet(NoId, 0, FALSE)
    ELSE IF raises \/ label \notin ModelLabels
    THEN RecRet(NoId, 0, TRUE)
    ELSE IF label \in DOMAIN label_map /\ d < FinalMatchThreshold * 10
            /\ label_map[label] \in DOMAIN students
    THEN RecRet(label_map[label], ConfidenceFinal(d), TRUE)
    ELSE RecRet(NoId, 0, TRUE)

recognize(raises, label, d) ==
    /\ variant = "final"
    /\ UNCHANGED <<buildVars, now, guardVars, galleryVars, ledgerVars, diskVars, restarts>>
    /\ result' = RecognizeFinal(raises, label, d)

\* FaceRecognitionService.recognize_face (backend/services/face_recognition.py):
\* every face is answered with the fixed identity 'unknown_1' at 98.5
DemoId == <<"unknown", 1>>

recognize_face_backend ==
    /\ variant = "backend"
    /\ result' = RecRet(DemoId, 985, FALSE)
    /\ UNCHANGED <<buildVars, now, guardVars, galleryVars, ledgerVars, diskVars, restarts>>

(***************************************************************************)
(* The simple attendance endpoint (backend/api/routes/attendance.py): the  *)
(* file attendance.csv is text, written by csv.DictWriter and read back by *)
(* csv.DictReader. A text is a sequence of characters                      *)
(***************************************************************************)
Comma == ","
Quote == "\""

\* the file before the first mark
NoCsvFile == [exists |-> FALSE, lines |-> <<>>]

RECURSIVE Doubled(_)
Doubled(s) ==
    IF s = <<>> THEN <<>>
    ELSE (IF Head(s) = Quote THEN <<Quote, Quote>> ELSE <<Head(s)>>) \o Doubled(Tail(s))

\* csv.writer, excel dialect: a field that holds the delimiter or the quote
\* character is quoted, the quote characters in it doubled
FieldText_Unquoted(s) == s
FieldText(s) ==
    IF \E i \in DOMAIN s : s[i] \in {Comma, Quote}
    THEN <<Quote>> \o Doubled(s) \o <<Quote>>
    ELSE s

\* dt.strftime('%Y-%m-%d') and dt.strftime('%H:%M:%S'): texts free of
\* commas and quotes, taken as one character each
DateStr(day) == <<ToString(day)>>
TimeStr == <<"HH:MM:SS">>

\* writer.writerow({'name': ..., 'date': ..., 'time': ...})
RowText(name, day) ==
    FieldText(name) \o <<Comma>> \o FieldText(DateStr(day)) \o <<Comma>> \o FieldText(TimeStr)

\* csv.reader on one line: st is "start" at the start of a field, "quoted"
\* inside a quoted field and "in" otherwise
RECURSIVE ParseLine(_, _, _, _)
ParseLine(rest, st, field, fields) ==
    IF rest = <<>> THEN Append(fields, field)
    ELSE LET c == Head(rest) IN
         IF st = "quoted"
         THEN IF c = Quote
              THEN IF Len(rest) >= 2 /\ rest[2] = Quote
                   THEN ParseLine(Tail(Tail(rest)), "quoted", Append(field, Quote), fields)
                   ELSE ParseLine(Tail(rest), "in", field, fields)
              ELSE ParseLine(Tail(rest), "quoted", Append(field, c), fields)
         ELSE IF c = Comma
              THEN ParseLine(Tail(rest), "start", <<>>, Append(fields, field))
              ELSE IF c = Quote /\ st = "start"
              THEN ParseLine(Tail(rest), "quoted", field, fields)
              ELSE ParseLine(Tail(rest), "in", Append(field, c), fields)

\* csv.DictReader with the header name,date,time: a missing column reads
\* as None
NoText == <<"None">>

DictRow(line) ==
    LET fields == ParseLine(line, "start", <<>>, <<>>) IN
    [name |-> IF Len(fields) >= 1 THEN fields[1] ELSE NoText,
     date |-> IF Len(fields) >= 2 THEN fields[2] ELSE NoText]

\* any(r['name'] == request.name and r['date'] == date_str for r in existing)
already_marked(name, day) ==
    \E i \in DOMAIN attendance_csv.lines :
        /\ DictRow(attendance_csv.lines[i].text).name = name
        /\ DictRow(attendance_csv.lines[i].text).date = DateStr(day)

\* the date of the request: a timestamp that parses gives its own day, a
\* missing or unparsable one gives the day of the clock
RequestDay(ts) == IF ts.kind = "iso" THEN ts.day ELSE Today

MarkRet(name, day, ok, duplicate) ==
    [name |-> name, day |-> day, duplicate |-> duplicate]
        @@ Ret("simple_mark", NoId, ok, IF ok THEN "" ELSE "HTTP500")

\* POST /mark. The handler is a coroutine without an await and the server
\* runs one event loop, so requests are handled one after the other. Each
\* line of the file also records the request it was written for
simple_mark(name, ts) ==
    LET day == RequestDay(ts) IN
    /\ variant = "backend"
    /\ IF attendance_csv.exists /\ already_marked(name, day)
       THEN /\ result' = MarkRet(name, day, TRUE, TRUE)
            /\ UNCHANGED attendance_csv
       ELSE IF ~disk_writable
       THEN /\ result' = MarkRet(name, day, FALSE, FALSE)
            /\ UNCHANGED attendance_csv
       ELSE /\ Len(attendance_csv.lines) < MaxRows
            /\ attendance_csv' =
                  [exists |-> TRUE,
                   lines |-> Append(attendance_csv.lines,
                                    [text |-> RowText(name, day), name |-> name, day |-> day])]
            /\ result' = MarkRet(name, day, TRUE, FALSE)
    /\ UNCHANGED <<variant, recognizer_ok, consecutive_drowsy, low_ear_run, run2Vars, now, guardVars,
                   galleryVars, ledgerVars, diskVars, restarts, threads, sessionVars,
                   disk_writable>>

(***************************************************************************)
(* BiometricService (backend/services/biometric.py)                        *)
(***************************************************************************)
\* Python's None among the text arguments, and the truth value of a text
\* argument: None and the empty text are false
None == "<None>"
Truthy(x) == x # None /\ x # ""

\* str.upper() on the tags used
Upper(tag) ==
    CASE tag = "ab" -> "AB"
      [] tag = "cd" -> "CD"
      [] OTHER -> tag

\* verify_fingerprint: provided_hash == stored_hash, confidence 95 or 0
verify_fingerprint(provided_hash, stored_hash) ==
    [method |-> "fingerprint", verified |-> provided_hash = stored_hash,
     confidence |-> IF provided_hash = stored_hash THEN 950 ELSE 0]

\* verify_rfid: the tags compared in upper case, confidence 100 or 0
verify_rfid(provided_tag, stored_tag) ==
    [method |-> "rfid", verified |-> Upper(provided_tag) = Upper(stored_tag),
     confidence |-> IF Upper(provided_tag) = Upper(stored_tag) THEN 1000 ELSE 0]

\* face_verified and face_confidence >= 70 (confidences in tenths)
FaceFactor(face_verified, face_confidence) ==
    [method |-> "face", verified |-> face_verified /\ face_confidence >= FaceFactorThreshold * 10,
     confidence |-> face_confidence]

\* the factors list of multi_factor_verify
Factors(face_verified, face_confidence, fingerprint_hash, stored_fingerprint, rfid_tag, stored_rfid) ==
    <<FaceFactor(face_verified, face_confidence)>>
    \o (IF Truthy(fingerprint_hash) /\ Truthy(stored_fingerprint)
        THEN <<verify_fingerprint(fingerprint_hash, stored_fingerprint)>> ELSE <<>>)
    \o (IF Truthy(rfid_tag) /\ Truthy(stored_rfid)
        THEN <<verify_rfid(rfid_tag, stored_rfid)>> ELSE <<>>)

\* sum(1 for f in factors if f['verified'])
PassedFactors(factors) == Cardinality({i \in DOMAIN factors : factors[i].verified})

RECURSIVE TotalScore(_)
TotalScore(factors) ==
    IF factors = <<>> THEN 0
    ELSE (IF Head(factors).verified THEN Head(factors).confidence ELSE 0)
         + TotalScore(Tail(factors))

\* is_valid = passed_factors >= 2
IsValid(passed_factors) == passed_factors >= RequiredFactors

\* BiometricService.multi_factor_verify; average_confidence is total_score
\* over factors_passed, kept as the two numbers
multi_factor_verify(student_id, face_verified, face_confidence, fingerprint_hash, stored_fingerprint, rfid_tag, stored_rfid) ==
    LET factors == Factors(face_verified, face_confidence, fingerprint_hash,
                           stored_fingerprint, rfid_tag, stored_rfid)
    IN /\ variant = "backend"
       /\ result' = [is_valid |-> IsValid(PassedFactors(factors)),
                     factors_passed |-> PassedFactors(factors),
                     total_factors |-> Len(factors),
                     factors |-> factors,
                     total_score |-> TotalScore(factors)]
                    @@ Ret("multi_factor_verify", student_id, TRUE, "")
       /\ UNCHANGED <<buildVars, now, guardVars, galleryVars, ledgerVars, diskVars, restarts>>

(***************************************************************************)
(* AttentionTracker (backend/services/attention.py). A frame is the list   *)
(* of the faces MediaPipe found in it, each with its two eye aspect ratios *)
(* in hundredths; a face is known by its position in that list             *)
(***************************************************************************)
\* avg_ear < EAR_THRESHOLD, with avg_ear = (left_ear + right_ear) / 2
LowEar_Never(face) == FALSE
LowEar(face) == face.left_ear + face.right_ear < 2 * AttentionEarThreshold

\* the loop of analyze_frame over the faces, in order: acc holds
\* consecutive_drowsy and the metrics appended so far
RECURSIVE AnalyzeLoop(_, _)
AnalyzeLoop(faces, acc) ==
    IF faces = <<>> THEN acc
    ELSE LET count == IF LowEar(Head(faces)) THEN acc.consecutive_drowsy + 1 ELSE 0
         IN AnalyzeLoop(Tail(faces),
                [consecutive_drowsy |-> count,
                 metrics |-> Append(acc.metrics,
                                    [avg_ear2 |-> Head(faces).left_ear + Head(faces).right_ear,
                                     is_drowsy |-> count >= DrowsyFrames])])

\* the metrics answered without MediaPipe
DummyMetrics == <<[avg_ear2 |-> 56, is_drowsy |-> FALSE]>>

\* for each face position, the frames in a row, among those in which a
\* face at that position was analysed, in which it had a low EAR
RunsAfter(faces) ==
    [i \in FacePositions |->
        IF i \notin DOMAIN faces THEN low_ear_run[i]
        ELSE IF LowEar(faces[i]) THEN Min2(low_ear_run[i] + 1, MaxDrowsy)
        ELSE 0]

\* AttentionTracker.analyze_frame; mediapipe tells whether MediaPipe is
\* available to the process
analyze_frame(mediapipe, faces) ==
    LET r == AnalyzeLoop(faces, [consecutive_drowsy |-> consecutive_drowsy, metrics |-> <<>>])
    IN /\ variant = "backend"
       /\ IF ~mediapipe
          THEN /\ result' = [metrics |-> DummyMetrics] @@ Ret("analyze_frame", NoId, TRUE, "")
               /\ UNCHANGED <<consecutive_drowsy, low_ear_run>>
          ELSE /\ r.consecutive_drowsy <= MaxDrowsy
               /\ consecutive_drowsy' = r.consecutive_drowsy
               /\ low_ear_run' = RunsAfter(faces)
               /\ result' = [metrics |-> r.metrics] @@ Ret("analyze_frame", NoId, TRUE, "")
       /\ UNCHANGED <<variant, recognizer_ok, attendance_csv, run2Vars, now, guardVars, galleryVars,
                      ledgerVars, diskVars, restarts, threads, sessionVars, disk_writable>>

(***************************************************************************)
(* mark_attendance of attendify_pro_v2 statement by statement, as run by   *)
(* callers on different threads: nothing in it is guarded by a lock        *)
(***************************************************************************)
NoFlags == [face |-> FALSE, liveness |-> FALSE, fingerprint |-> FALSE, qr |-> FALSE]
NoOwners == [face |-> NoId, liveness |-> NoId, fingerprint |-> NoId, qr |-> NoId]

IdleThread == [pc |-> "idle", id |-> NoId, f |-> NoFlags, pruned |-> <<>>,
               ok |-> FALSE, msg |-> ""]

Goto(t, pc) == threads' = [threads EXCEPT ![t].pc = pc]

Return(t, ok, msg) ==
    threads' = [threads EXCEPT ![t].pc = "done", ![t].ok = ok, ![t].msg = msg]

threadFrame == <<variant, recognizer_ok, backendVars, now, galleryVars, restarts, result, sessionVars,
                 disk_writable>>

\* a caller enters mark_attendance(student_id, factors)
T_Call(t, id, f) ==
    /\ variant = "pro_v2"
    /\ threads[t].pc = "idle"
    /\ threads' = [threads EXCEPT ![t].pc = "rate_read", ![t].id = id, ![t].f = f]
    /\ UNCHANGED <<threadFrame, guardVars, ledgerVars, diskVars>>

\* check_rate_limit: the list comprehension reads the attempts ...
T_RateRead(t) ==
    /\ threads[t].pc = "rate_read"
    /\ threads' = [threads EXCEPT ![t].pc = "rate_write",
                                  ![t].pruned = PruneWindow(attempts[threads[t].id], now)]
    /\ UNCHANGED <<threadFrame, guardVars, ledgerVars, diskVars>>

\* ... and its result is stored back; then the cap is tested
T_RateWrite(t) ==
    LET id == threads[t].id
        pruned == threads[t].pruned
    IN /\ threads[t].pc = "rate_write"
       /\ attempts' = [attempts EXCEPT ![id] = pruned]
       /\ IF OverCap(pruned)
          THEN /\ Len(anomalies) < MaxAnomalies
               /\ anomalies' = Append(anomalies, AnomalyEntry(id, "RATE_LIMIT"))
               /\ Return(t, FALSE, "RateLimited")
          ELSE /\ Goto(t, "check_today")
               /\ UNCHANGED anomalies
       /\ UNCHANGED <<threadFrame, ledgerVars, diskVars>>

\* if student_id in self.attendance_today
T_CheckToday(t) ==
    /\ threads[t].pc = "check_today"
    /\ IF AlreadyMarkedToday(threads[t].id)
       THEN Return(t, FALSE, "AlreadyMarked")
       ELSE Goto(t, "check_face")
    /\ UNCHANGED <<threadFrame, guardVars, ledgerVars, diskVars>>

\* if not factors.get('face'): record_attempt(student_id, False)
T_CheckFace(t) ==
    /\ threads[t].pc = "check_face"
    /\ IF FaceMissing(threads[t].f)
       THEN /\ attempts' = [attempts EXCEPT ![threads[t].id] = Append(@, now)]
            /\ Return(t, FALSE, "FaceRequired")
       ELSE /\ Goto(t, "write_today")
            /\ UNCHANGED attempts
    /\ UNCHANGED <<threadFrame, anomalies, ledgerVars, diskVars>>

\* self.attendance_today[student_id] = {...}
T_WriteToday(t) ==
    LET id == threads[t].id IN
    /\ threads[t].pc = "write_today"
    /\ attendance_today' = (id :> [name |-> NameOf(id), time |-> TimeOfDay,
                                   score |-> Score(threads[t].f)]) @@ attendance_today
    /\ Goto(t, "append_history")
    /\ UNCHANGED <<threadFrame, guardVars, attendance_history, diskVars>>

\* self.attendance_history[day].append({...})
T_AppendHistory(t) ==
    /\ threads[t].pc = "append_history"
    /\ attendance_history' = [attendance_history EXCEPT ![Today] =
          Append(@, [student_id |-> threads[t].id, time |-> TimeOfDay,
                     score |-> Score(threads[t].f)])]
    /\ Goto(t, "record_attempt")
    /\ UNCHANGED <<threadFrame, guardVars, attendance_today, diskVars>>

\* self.anomaly.record_attempt(student_id, True)
T_RecordAttempt(t) ==
    /\ threads[t].pc = "record_attempt"
    /\ attempts' = [attempts EXCEPT ![threads[t].id] = Append(@, now)]
    /\ Goto(t, "save")
    /\ UNCHANGED <<threadFrame, anomalies, ledgerVars, diskVars>>

\* self._save_data(); return True
T_Save(t) ==
    /\ threads[t].pc = "save"
    /\ IF disk_writable
       THEN /\ data_file' = SavedData(label_map, students, attendance_history)
            /\ model_file' = SavedModel(label_map, model)
            /\ Return(t, TRUE, "Verified")
       ELSE /\ Return(t, FALSE, "OSError")
            /\ UNCHANGED <<data_file, model_file>>
    /\ UNCHANGED <<threadFrame, guardVars, ledgerVars, log_files>>

(***************************************************************************)
(* enroll_student of attendify_pro_v2 statement by statement, as run by    *)
(* the GUI thread while the capture thread calls recognize_face: neither   *)
(* holds a lock                                                            *)
(***************************************************************************)
enrollFrame == <<variant, recognizer_ok, backendVars, now, restarts, result, sessionVars, disk_writable,
                 guardVars, ledgerVars, log_files>>

\* the GUI thread enters enroll_student with frames that all show a face:
\* the checks, the new label and the preprocessed faces
E_Call(t, id, name) ==
    /\ variant = "pro_v2"
    /\ threads[t].pc \in {"idle", "done"}
    /\ IF ~recognizer_ok
       THEN Return(t, FALSE, "RecognitionUnavailable")
       ELSE IF IsEnrolled(id)
       THEN Return(t, FALSE, "DuplicateIdentity")
       ELSE threads' = [threads EXCEPT ![t] =
               [pc |-> "train", id |-> id, name |-> name, label |-> NextLabel(label_map),
                f |-> NoFlags, pruned |-> <<>>, ok |-> FALSE, msg |-> ""]]
    /\ UNCHANGED <<enrollFrame, galleryVars, data_file, model_file>>

\* recognizer.update(faces, labels), or recognizer.train when the label map
\* is empty
E_Train(t, train_ok) ==
    /\ threads[t].pc = "train"
    /\ IF train_ok
       THEN /\ model' = Trained(label_map # EmptyMap,
                                {Batch(threads[t].label, threads[t].id)})
            /\ Goto(t, "label_map")
       ELSE /\ Return(t, FALSE, "MatcherError")
            /\ UNCHANGED model
    /\ UNCHANGED <<enrollFrame, label_map, students, data_file, model_file>>

\* self.label_map[label] = student_id
E_LabelMap(t) ==
    /\ threads[t].pc = "label_map"
    /\ label_map' = (threads[t].label :> threads[t].id) @@ label_map
    /\ Goto(t, "students")
    /\ UNCHANGED <<enrollFrame, students, model, data_file, model_file>>

\* self.students[student_id] = {...}
E_Students(t) ==
    /\ threads[t].pc = "students"
    /\ Cardinality(DOMAIN students \cup {threads[t].id}) <= MaxStudents
    /\ students' = (threads[t].id :> StudentRec(threads[t].name)) @@ students
    /\ Goto(t, "save_gallery")
    /\ UNCHANGED <<enrollFrame, label_map, model, data_file, model_file>>

\* self._save_data() and the return
E_Save(t) ==
    /\ threads[t].pc = "save_gallery"
    /\ IF disk_writable
       THEN /\ data_file' = SavedData(label_map, students, attendance_history)
            /\ model_file' = [exists |-> TRUE, samples |-> model]
            /\ Return(t, TRUE, "Enrolled")
       ELSE /\ Return(t, FALSE, "OSError")
            /\ UNCHANGED <<data_file, model_file>>
    /\ UNCHANGED <<enrollFrame, galleryVars>>

\* self.video_worker = None; a VideoWorker after __init__ has running False
\* and cap None
NoWorker == [exists |-> FALSE, pc |-> "none", running |-> FALSE, cap |-> "none"]

(***************************************************************************)
(* LivenessDetector: blink counting over the frames of a capture session   *)
(* (attendify_pro_v2.detect_blink, attendify_final.check: eye cascade;     *)
(* attendify_pro.detect_blink: eye aspect ratio)                           *)
(***************************************************************************)
\* what the detectors measure in a frame: whether a face is found, the
\* number of eyes the cascade finds in it, the eye aspect ratio in hundredths
NoFaceFrame == [face |-> FALSE, eyes |-> 0, ear |-> 100]
ClosedEyesFrame == [face |-> TRUE, eyes |-> 1, ear |-> 20]
OpenEyesFrame == [face |-> TRUE, eyes |-> 2, ear |-> 21]
Frames == {NoFaceFrame, ClosedEyesFrame, OpenEyesFrame}

\* LivenessDetector.__init__; face_mesh tells whether MediaPipe could be
\* initialised (attendify_pro only)
NewLiveness(mesh) ==
    [blink_count |-> 0, last_eye_count |-> 2, no_eye_frames |-> 0, blink_cooldown |-> 0,
     consecutive_frames |-> 0, face_mesh |-> mesh]

BlinkRet(detected, count, verified) ==
    [blink_detected |-> detected, count |-> count, is_verified |-> verified]

\* self.blink_count >= self.blink_threshold
IsVerified(lv) == lv.blink_count >= BlinkThreshold

\* self.no_eye_frames >= 2
ClosedLongEnough_One(n) == n >= 1
ClosedLongEnough(n) == n >= ClosedFrames

\* the if / elif chain of detect_blink (pro_v2) and check (final), followed
\* by self.last_eye_count = eye_count
CascadeStep(lv, fr) ==
    LET after ==
          IF lv.blink_cooldown > 0
          THEN [lv EXCEPT !.blink_cooldown = @ - 1]
          ELSE IF fr.eyes < 2 /\ lv.last_eye_count >= 2
          THEN [lv EXCEPT !.no_eye_frames = @ + 1]
          ELSE IF fr.eyes >= 2 /\ ClosedLongEnough(lv.no_eye_frames)
          THEN [lv EXCEPT !.blink_count = @ + 1, !.blink_cooldown = BlinkCooldown,
                          !.no_eye_frames = 0]
          ELSE IF fr.eyes >= 2
          THEN [lv EXCEPT !.no_eye_frames = 0]
          ELSE lv
    IN [after EXCEPT !.last_eye_count = fr.eyes]

\* the if / else of attendify_pro's detect_blink on the average ear
EarStep(lv, fr) ==
    IF fr.ear < EarThreshold
    THEN [lv EXCEPT !.consecutive_frames = @ + 1]
    ELSE IF lv.consecutive_frames >= FrameThreshold
    THEN [lv EXCEPT !.blink_count = @ + 1, !.consecutive_frames = 0]
    ELSE [lv EXCEPT !.consecutive_frames = 0]

\* detect_blink(frame) / check(frame) as a function of the detector's
\* state lv and the frame: the detector's new state and the returned triple
DetectorStep(lv, fr) ==
    IF variant = "pro"
    THEN IF ~lv.face_mesh
         THEN [lv |-> lv, ret |-> BlinkRet(FALSE, 0, FALSE)]
         ELSE IF ~fr.face
         THEN [lv |-> lv, ret |-> BlinkRet(FALSE, lv.blink_count, FALSE)]
         ELSE LET after == EarStep(lv, fr)
              IN [lv |-> after,
                  ret |-> BlinkRet(after.blink_count > lv.blink_count,
                                   after.blink_count, IsVerified(after))]
    ELSE IF ~fr.face
         THEN [lv |-> lv, ret |-> BlinkRet(FALSE, lv.blink_count, IsVerified(lv))]
         ELSE LET after == CascadeStep(lv, fr)
              IN [lv |-> after,
                  ret |-> BlinkRet(after.blink_count > lv.blink_count,
                                   after.blink_count, IsVerified(after))]

\* the body of detect_blink(frame) / check(frame) on the session's detector
DetectBlinkStep(fr) ==
    /\ liveness' = DetectorStep(liveness, fr).lv
    /\ blink' = DetectorStep(liveness, fr).ret

\* detect_blink(frame) / check(frame): one frame through the detector
detect_blink(fr) ==
    /\ variant \in {"pro_v2", "final", "pro"}
    /\ Len(frames_seen) < MaxStream
    /\ frames_seen' = Append(frames_seen, fr)
    /\ DetectBlinkStep(fr)
    /\ UNCHANGED <<systemVars, qr_issued, guiVars, workerVars>>

\* LivenessDetector.reset: last_eye_count (last_eyes, last_ear) is kept
ResetLiveness_KeepsClosedRun ==
    /\ liveness' = [liveness EXCEPT !.blink_count = 0, !.no_eye_frames = 0,
                                    !.blink_cooldown = 0]
    /\ frames_seen' = <<>>
ResetLiveness ==
    /\ liveness' = [liveness EXCEPT !.blink_count = 0, !.no_eye_frames = 0,
                                    !.blink_cooldown = 0, !.consecutive_frames = 0]
    /\ frames_seen' = <<>>

reset ==
    /\ variant \in {"pro_v2", "final", "pro"}
    /\ ResetLiveness
    /\ UNCHANGED <<blink, systemVars, qr_issued, guiVars, workerVars>>

(***************************************************************************)
(* BiometricSimulator: the daily QR token (attendify_pro_v2:               *)
(* generate_daily_qr / verify_qr_token, attendify_pro: generate_daily_qr / *)
(* verify_qr).  A text is the sequence of its pieces; ":" is a piece of    *)
(* its own, so that split(":") can be computed                             *)
(***************************************************************************)
\* a literal piece of text without a colon, and the colon
Lit(s) == <<"lit", s>>
Colon == <<"lit", ":">>

Namespace == <<Lit("ATTENDIFY")>>
QrSecret == <<Lit("QR_SECRET")>>

\* the student ids typed at enrollment: free text, a colon is not refused
QrIds == {<<Lit("ALI001")>>, <<Lit("BOB002")>>, <<Lit("CS"), Colon, Lit("101")>>}

\* datetime.now().strftime('%Y-%m-%d'): one piece of 10 characters per day
DateText(d) == << <<"%Y-%m-%d", d>> >>

\* hashlib.sha256(text).hexdigest()[:16]: 16 hex digits (no colon among
\* them), taken to differ for different texts
Sha256Hex16(text) == <<"sha256", text>>

\* token = sha256(f"{student_id}{today}QR_SECRET").hexdigest()[:16]
QrToken(id, d) == Sha256Hex16(id \o DateText(d) \o QrSecret)

\* qr.add_data(f"ATTENDIFY:{student_id}:{token}")
QrPayload(id, d) == Namespace \o <<Colon>> \o id \o <<Colon>> \o <<QrToken(id, d)>>

\* str.split(":"): the list of the texts between the colons
RECURSIVE Split(_, _, _)
Split(text, parts, cur) ==
    IF text = <<>> THEN Append(parts, cur)
    ELSE IF Head(text) = Colon THEN Split(Tail(text), Append(parts, cur), <<>>)
    ELSE Split(Tail(text), parts, Append(cur, Head(text)))

NoQr == [issued |-> FALSE, id |-> <<>>, day |-> 0, token |-> <<>>, payload |-> <<>>]

\* BiometricSimulator.generate_daily_qr(student_id)
generate_daily_qr(id) ==
    /\ variant \in {"pro_v2", "pro"}
    /\ qr_issued' = [issued |-> TRUE, id |-> id, day |-> Today,
                     token |-> QrToken(id, Today), payload |-> QrPayload(id, Today)]
    /\ result' = Ret("generate_qr", id, TRUE, "")
    /\ UNCHANGED <<variant, recognizer_ok, backendVars, threads, liveVars, guiVars, workerVars, now,
                   guardVars, galleryVars, ledgerVars, diskVars, disk_writable, restarts>>

\* the comparison of verify_qr_token: token == expected
TokenMatches(id, token) == token = QrToken(id, Today)

\* BiometricSimulator.verify_qr_token(student_id, token) (attendify_pro_v2)
verify_qr_token(id, token) ==
    /\ variant = "pro_v2"
    /\ result' = Ret("verify_qr", id, TokenMatches(id, token), "")
    /\ UNCHANGED <<buildVars, now, guardVars, galleryVars, ledgerVars, diskVars, restarts>>

\* the body of verify_qr's try block
VerifyQr(qr_data, id) ==
    LET parts == Split(qr_data, <<>>, <<>>)
    IN IF Len(parts) # 3 \/ parts[1] # Namespace THEN FALSE
       ELSE IF parts[2] # id THEN FALSE
       ELSE parts[3] = <<QrToken(id, Today)>>

\* BiometricSimulator.verify_qr(qr_data, student_id) (attendify_pro)
verify_qr(qr_data, id) ==
    /\ variant = "pro"
    /\ result' = Ret("verify_qr", id, VerifyQr(qr_data, id), "")
    /\ UNCHANGED <<buildVars, now, guardVars, galleryVars, ledgerVars, diskVars, restarts>>

(***************************************************************************)
(* Frame handlers and the verification panel: AttendifyProV2               *)
(* (attendify_pro_v2.py), AttendifyApp.process_frame (attendify_desktop.py)*)
(* and App.update_video (attendance_app.py)                                *)
(***************************************************************************)
\* the entries of a frame's result list with 'recognized' true
RecognizedIn(faces) == {i \in DOMAIN faces : faces[i].sid # NoId}

\* the identity a flag counts as set under: the current_student at the
\* moment the flag went from false to true
OwnerAfter(was, is, owner, student) == IF is /\ ~was THEN student ELSE owner

\* the assignments of AttendifyProV2.process_frame(frame, faces, liveness):
\* faces is the result list emitted with the frame, verified the
\* liveness['verified'] emitted with it
ProcessFrameBody_FaceAsSeen(faces, verified) ==
    /\ current_student' = IF RecognizedIn(faces) = {} THEN current_student
                          ELSE faces[Max(RecognizedIn(faces))].sid
    /\ verification_state' =
          [verification_state EXCEPT
              !.face = RecognizedIn(faces) # {},
              !.liveness = @ \/ (faces # <<>> /\ verified)]
    /\ flag_owner' =
          [flag_owner EXCEPT
              !.face = IF RecognizedIn(faces) # {} THEN current_student' ELSE NoId,
              !.liveness = OwnerAfter(verification_state.liveness,
                                      verification_state'.liveness, @, current_student')]
    /\ UNCHANGED fingerprint_timers
ProcessFrameBody(faces, verified) ==
    /\ current_student' = IF RecognizedIn(faces) = {} THEN current_student
                          ELSE faces[Max(RecognizedIn(faces))].sid
    /\ verification_state' =
          [verification_state EXCEPT
              !.face = @ \/ RecognizedIn(faces) # {},
              !.liveness = @ \/ (faces # <<>> /\ verified)]
    /\ flag_owner' =
          [flag_owner EXCEPT
              !.face = IF RecognizedIn(faces) # {} THEN current_student' ELSE @,
              !.liveness = OwnerAfter(verification_state.liveness,
                                      verification_state'.liveness, @, current_student')]
    /\ UNCHANGED fingerprint_timers

\* AttendifyProV2.process_frame called with a frame's results
process_frame(faces, verified) ==
    /\ variant = "pro_v2"
    /\ ProcessFrameBody(faces, verified)
    /\ UNCHANGED <<systemVars, liveVars, qr_issued, workerVars>>

\* AttendifyProV2.scan_qr_code: the scan is simulated, nothing is verified
scan_qr_code ==
    /\ variant = "pro_v2"
    /\ verification_state' = IF current_student = NoId THEN verification_state
                             ELSE [verification_state EXCEPT !.qr = TRUE]
    /\ flag_owner' = [flag_owner EXCEPT
                         !.qr = OwnerAfter(verification_state.qr, verification_state'.qr,
                                           @, current_student)]
    /\ UNCHANGED <<current_student, fingerprint_timers, systemVars, liveVars, qr_issued,
                   workerVars>>

\* a timer started by simulate_fingerprint: the student it was started for,
\* and whether reset_verification has run since
Timer(student) == [student |-> student, stale |-> FALSE]

\* AttendifyProV2.simulate_fingerprint: every enrolled student has a stored
\* fingerprint, so the scan animation starts and _complete_fingerprint is
\* scheduled 2000 ms later
simulate_fingerprint ==
    /\ variant = "pro_v2"
    /\ Len(fingerprint_timers) < MaxTimers
    /\ fingerprint_timers' =
          IF current_student # NoId /\ current_student \in DOMAIN students
          THEN Append(fingerprint_timers, Timer(current_student))
          ELSE fingerprint_timers
    /\ UNCHANGED <<current_student, verification_state, flag_owner, systemVars, liveVars,
                   qr_issued, workerVars>>

\* AttendifyProV2._complete_fingerprint, run by the event loop when the
\* oldest timer fires
complete_fingerprint ==
    /\ gui_thread = "events"
    /\ fingerprint_timers # <<>>
    /\ fingerprint_timers' = Tail(fingerprint_timers)
    /\ verification_state' = [verification_state EXCEPT !.fingerprint = TRUE]
    /\ flag_owner' = [flag_owner EXCEPT
                         !.fingerprint = OwnerAfter(verification_state.fingerprint, TRUE,
                                                    @, current_student)]
    /\ UNCHANGED <<current_student, systemVars, liveVars, qr_issued, workerVars>>

\* what was scheduled or emitted before a reset is marked as such
Stale(q) == [i \in DOMAIN q |-> [q[i] EXCEPT !.stale = TRUE]]

\* the assignments of reset_verification, with self.system.liveness.reset();
\* finger_btn.reset() restores the button and stops no timer, and frames
\* already emitted stay queued
ResetVerification ==
    /\ current_student' = NoId
    /\ verification_state' = NoFlags
    /\ flag_owner' = NoOwners
    /\ fingerprint_timers' = Stale(fingerprint_timers)
    /\ signals' = Stale(signals)
    /\ ResetLiveness

\* AttendifyProV2.reset_verification
reset_verification ==
    /\ variant = "pro_v2"
    /\ ResetVerification
    /\ UNCHANGED <<blink, systemVars, qr_issued, video_worker, gui_thread>>

\* AttendifyProV2.submit_verification: the explicit mark of the recognized
\* student with the flags collected so far; the panel is reset on success
submit_verification ==
    /\ variant = "pro_v2"
    /\ IF current_student = NoId
       THEN UNCHANGED vars
       ELSE /\ mark_attendance_body(current_student, verification_state)
            /\ IF result'.ok
               THEN ResetVerification
               ELSE UNCHANGED <<guiVars, liveness, frames_seen, signals>>
            /\ UNCHANGED <<blink, qr_issued, video_worker, gui_thread, run2Vars>>

\* the marks a frame handler makes by itself for the identities recognized
\* in a frame, in the order of its faces: FaceSystem.mark_attendance
\* (attendify_desktop.py) and the body of update_video's loop
\* (attendance_app.py); open(..., 'a') raises when the directory is not
\* writable, which ends the handler after the in-memory entry was made
RECURSIVE AutoMarks(_, _)
AutoMarks(sids, acc) ==
    IF sids = <<>> THEN acc
    ELSE LET sid == Head(sids)
             today == (sid :> [name |-> NameOf(sid), time |-> TimeOfDay]) @@ acc.today
             line == [student_id |-> sid, time |-> TimeOfDay, name |-> NameOf(sid)]
         IN IF sid = NoId \/ sid \in DOMAIN acc.today
            THEN AutoMarks(Tail(sids), acc)
            ELSE IF ~disk_writable
            THEN [today |-> today, log |-> acc.log]
            ELSE AutoMarks(Tail(sids), [today |-> today, log |-> Append(acc.log, line)])

AutoMark(sids) ==
    LET r == AutoMarks(sids, [today |-> attendance_today, log |-> log_files[Today]])
    IN /\ attendance_today' = r.today
       /\ log_files' = [log_files EXCEPT ![Today] = r.log]

\* AttendifyApp.process_frame(frame, results) (attendify_desktop.py)
process_frame_desktop(faces) ==
    /\ variant = "desktop"
    /\ AutoMark([i \in DOMAIN faces |-> faces[i].sid])
    /\ UNCHANGED <<buildVars, now, guardVars, galleryVars, attendance_history, data_file,
                   model_file, restarts, result>>

\* AttendanceSystem.recognize (attendance_app.py) for one face: m tells
\* whether predict raised, and the label and distance (in tenths) it gave
AppRecognize(m) ==
    IF ~recognizer_ok \/ label_map = EmptyMap THEN NoId
    ELSE IF m.raises \/ m.label \notin ModelLabels THEN NoId
    ELSE IF m.label \in DOMAIN label_map /\ m.d < FinalMatchThreshold * 10
    THEN label_map[m.label]
    ELSE NoId

\* App.update_video (attendance_app.py) in recognition mode with the camera
\* running: faces holds what predict gives for each detected face
update_video(faces) ==
    /\ variant = "app"
    /\ AutoMark([i \in DOMAIN faces |-> AppRecognize(faces[i])])
    /\ UNCHANGED <<buildVars, now, guardVars, galleryVars, attendance_history, data_file,
                   model_file, restarts, result>>

(***************************************************************************)
(* The capture thread: VideoWorker and start_camera / stop_camera          *)
(* (attendify_pro_v2.py). The worker's run is taken one statement group at *)
(* a time, so that the GUI thread's steps can fall between any two         *)
(***************************************************************************)
\* QThread.isRunning(): true from start() until run has returned
IsRunning(w) == w.exists /\ w.pc # "finished"

\* toggle_camera with no running worker: start_camera creates the worker
\* (running False, cap None) and starts its thread
start_camera ==
    /\ variant = "pro_v2"
    /\ gui_thread = "events"
    /\ ~IsRunning(video_worker)
    /\ video_worker' = [exists |-> TRUE, pc |-> "run", running |-> FALSE, cap |-> "none"]
    /\ UNCHANGED <<systemVars, liveVars, qr_issued, guiVars, gui_thread, signals>>

\* stop_camera (from toggle_camera or closeEvent) up to the wait() inside
\* VideoWorker.stop: running is cleared and the GUI thread blocks
stop_camera ==
    /\ variant = "pro_v2"
    /\ gui_thread = "events"
    /\ video_worker.exists
    /\ video_worker' = [video_worker EXCEPT !.running = FALSE]
    /\ gui_thread' = "stop_wait"
    /\ UNCHANGED <<systemVars, liveVars, qr_issued, guiVars, signals>>

\* wait() returns once run has returned; stop_camera then drops the worker
stop_returns ==
    /\ gui_thread = "stop_wait"
    /\ video_worker.pc = "finished"
    /\ video_worker' = NoWorker
    /\ gui_thread' = "events"
    /\ UNCHANGED <<systemVars, liveVars, qr_issued, guiVars, signals>>

\* run: self.cap = cv2.VideoCapture(0) and its two set calls
W_Open ==
    /\ video_worker.pc = "run"
    /\ video_worker' = [video_worker EXCEPT !.cap = "open", !.pc = "set_running"]
    /\ UNCHANGED <<systemVars, liveVars, qr_issued, guiVars, gui_thread, signals>>

\* run: self.running = True
W_SetRunning ==
    /\ video_worker.pc = "set_running"
    /\ video_worker' = [video_worker EXCEPT !.running = TRUE, !.pc = "loop"]
    /\ UNCHANGED <<systemVars, liveVars, qr_issued, guiVars, gui_thread, signals>>

\* run: while self.running
W_Test ==
    /\ video_worker.pc = "loop"
    /\ video_worker' = [video_worker EXCEPT
                           !.pc = IF video_worker.running THEN "read" ELSE "release"]
    /\ UNCHANGED <<systemVars, liveVars, qr_issued, guiVars, gui_thread, signals>>

\* run: ret, frame = self.cap.read(); if not ret: continue
W_Read(ret) ==
    /\ video_worker.pc = "read"
    /\ video_worker' = [video_worker EXCEPT !.pc = IF ret THEN "frame" ELSE "loop"]
    /\ UNCHANGED <<systemVars, liveVars, qr_issued, guiVars, gui_thread, signals>>

\* the payload of frame_ready for a frame: the results of its faces and
\* the verified flag detect_blink returned for it
Emission(fr, label, d, verified) ==
    [faces |-> IF fr.face THEN <<RecognizeFace(FALSE, label, d)>> ELSE <<>>,
     verified |-> verified, stale |-> FALSE]

\* run: the rest of one iteration: detect_faces, liveness.detect_blink,
\* recognize_face for each face, frame_ready.emit, msleep(30). The emission
\* is queued for the GUI thread and never blocks; the queue is kept to
\* MaxSignals entries, later emissions being dropped
W_Frame(fr, label, d) ==
    /\ variant = "pro_v2"
    /\ video_worker.pc = "frame"
    /\ DetectBlinkStep(fr)
    /\ signals' = IF Len(signals) < MaxSignals
                  THEN Append(signals, Emission(fr, label, d, blink'.is_verified))
                  ELSE signals
    /\ video_worker' = [video_worker EXCEPT !.pc = "loop"]
    /\ UNCHANGED <<systemVars, frames_seen, qr_issued, guiVars, gui_thread>>

\* run: detect_faces or liveness.detect_blink raises on the frame read
\* (cv2.cvtColor and detectMultiScale are called outside any try, before
\* either changes state). run has no try / finally: the exception leaves the
\* loop and run, and the thread ends with the statements after the loop
\* not executed
W_Raise ==
    /\ variant = "pro_v2"
    /\ video_worker.pc = "frame"
    /\ video_worker' = [video_worker EXCEPT !.pc = "finished"]
    /\ UNCHANGED <<systemVars, liveVars, qr_issued, guiVars, gui_thread, signals>>

\* run: if self.cap: self.cap.release(), and run returns
W_Release ==
    /\ video_worker.pc = "release"
    /\ video_worker' = [video_worker EXCEPT !.cap = "released", !.pc = "finished"]
    /\ UNCHANGED <<systemVars, liveVars, qr_issued, guiVars, gui_thread, signals>>

\* the GUI thread's event loop delivers a queued frame_ready emission to
\* process_frame
frame_ready ==
    /\ gui_thread = "events"
    /\ signals # <<>>
    /\ ProcessFrameBody(Head(signals).faces, Head(signals).verified)
    /\ signals' = Tail(signals)
    /\ UNCHANGED <<systemVars, liveVars, qr_issued, video_worker, gui_thread>>

(***************************************************************************)
(* Process lifecycle and the clock                                         *)
(***************************************************************************)
\* _load_data: recognizer.read(model_path) inside try / except: pass; a
\* model file that cannot be read leaves the recognizer untrained
LoadedModel(read_ok) ==
    IF recognizer_ok /\ model_file.exists /\ read_ok THEN model_file.samples ELSE {}

\* AttendanceSystem.__init__ followed by _load_data in a new process; the
\* final variant keeps no history in memory
Startup(read_ok) ==
    /\ restarts < MaxRestarts
    /\ restarts' = restarts + 1
    /\ attempts' = [id \in Ids |-> <<>>]
    /\ anomalies' = <<>>
    /\ attendance_today' = EmptyMap
    /\ label_map' = IF data_file.exists THEN data_file.labels ELSE EmptyMap
    /\ students' = IF data_file.exists THEN data_file.students ELSE EmptyMap
    /\ attendance_history' = IF data_file.exists /\ variant # "final"
                             THEN data_file.history ELSE EmptyHistory
    /\ model' = LoadedModel(read_ok)
    /\ result' = Ret("restart", NoId, TRUE, "")
    /\ liveness' = NewLiveness(liveness.face_mesh)
    /\ frames_seen' = <<>>
    /\ blink' = BlinkRet(FALSE, 0, FALSE)
    /\ current_student' = NoId
    /\ verification_state' = NoFlags
    /\ fingerprint_timers' = <<>>
    /\ flag_owner' = NoOwners
    /\ video_worker' = NoWorker
    /\ gui_thread' = "events"
    /\ signals' = <<>>
    /\ UNCHANGED <<variant, recognizer_ok, backendVars, threads, qr_issued, disk_writable, now, diskVars>>

\* a start at which the model file, when there is one, is read
Restart == Startup(TRUE)

Tick ==
    /\ TimeOfDay + TickSeconds <= MaxTick * TickSeconds
    /\ now' = now + TickSeconds
    /\ result' = Ret("tick", NoId, TRUE, "")
    /\ UNCHANGED <<buildVars, guardVars, galleryVars, ledgerVars, diskVars, restarts>>

NextDay ==
    /\ Today < MaxDay
    /\ now' = (Today + 1) * DaySeconds
    /\ result' = Ret("tick", NoId, TRUE, "")
    /\ UNCHANGED <<buildVars, guardVars, galleryVars, ledgerVars, diskVars, restarts>>

(***************************************************************************)
(* Initial states: a fresh process, started on data files that are either  *)
(* absent or were written by an earlier run that enrolled S1 and S2        *)
(***************************************************************************)
EnrolledLabels == (0 :> S1) @@ (1 :> S2)
EnrolledStudents == (S1 :> StudentRec("Alice")) @@ (S2 :> StudentRec("Bob"))
EnrolledModel == {Batch(0, S1), Batch(1, S2)}

EnrolledDataFile == SavedData(EnrolledLabels, EnrolledStudents, EmptyHistory)
EnrolledModelFile == [exists |-> TRUE, samples |-> EnrolledModel]

\* the capture session before its first frame
SessionInit(M) ==
    /\ liveness \in {NewLiveness(mesh) : mesh \in M}
    /\ frames_seen = <<>>
    /\ blink = BlinkRet(FALSE, 0, FALSE)
    /\ qr_issued = NoQr
    /\ current_student = NoId
    /\ verification_state = NoFlags
    /\ fingerprint_timers = <<>>
    /\ flag_owner = NoOwners
    /\ video_worker = NoWorker
    /\ gui_thread = "events"
    /\ signals = <<>>

SystemInit(V, R, G) ==
    /\ variant \in V
    /\ recognizer_ok \in R
    /\ \E enrolled \in G :
          /\ data_file = IF enrolled THEN EnrolledDataFile ELSE NoDataFile
          /\ model_file = IF enrolled THEN EnrolledModelFile ELSE NoModelFile
          /\ label_map = IF enrolled THEN EnrolledLabels ELSE EmptyMap
          /\ students = IF enrolled THEN EnrolledStudents ELSE EmptyMap
          /\ model = IF enrolled /\ recognizer_ok THEN EnrolledModel ELSE {}
    /\ now = 0
    /\ attempts = [id \in Ids |-> <<>>]
    /\ anomalies = <<>>
    /\ attendance_today = EmptyMap
    /\ attendance_history = EmptyHistory
    /\ log_files = EmptyHistory
    /\ restarts = 0
    /\ threads = [t \in Threads |-> IdleThread]
    /\ result = Ret("init", NoId, TRUE, "")
    /\ disk_writable = TRUE
    /\ attendance_csv = NoCsvFile
    /\ consecutive_drowsy = 0
    /\ low_ear_run = [i \in FacePositions |-> 0]
    /\ run2_attempts = attempts
    /\ run2_today = DOMAIN attendance_today
    /\ run2_result = result

InitWith(V, R, G) == SystemInit(V, R, G) /\ SessionInit({TRUE})

(***************************************************************************)
(* Spec: the attendance ledger of attendify_pro_v2 and attendify_final     *)
(* across successful marks, day changes and process restarts               *)
(***************************************************************************)
\* the face factor alone, or all four factors
FaceFlags == {f \in Flags : f.face /\ Score(f) \in {30, 100}}

Init == InitWith({"pro_v2", "final"}, {TRUE}, {TRUE})

MarkV2 == \E id \in Ids, f \in FaceFlags : mark_attendance(id, f)
MarkFinal == \E id \in Ids, f \in FaceFlags : mark(id, f)

Next == MarkV2 \/ MarkFinal \/ Restart \/ NextDay

Spec == Init /\ [][Next]_vars

(***************************************************************************)
(* SpecLedger: one process, one instant; every identity and every          *)
(* combination of the four factor flags                                    *)
(***************************************************************************)
MarkAnyV2 == \E id \in Ids, f \in Flags : mark_attendance(id, f)
MarkAnyFinal == \E id \in Ids, f \in Flags : mark(id, f)

NextLedger == MarkAnyV2 \/ MarkAnyFinal

SpecLedger == Init /\ [][NextLedger]_vars

(***************************************************************************)
(* SpecRate: the rate guard of attendify_pro_v2 as the clock advances      *)
(***************************************************************************)
RateFlags == {f \in Flags : Score(f) \in {0, 30}}

InitRate == InitWith({"pro_v2"}, {TRUE}, {TRUE})

RateIds == {S1}

MarkRate == \E id \in RateIds, f \in RateFlags : mark_attendance(id, f)

NextRate == MarkRate \/ Tick

SpecRate == InitRate /\ [][NextRate]_vars

(***************************************************************************)
(* SpecConc: two callers, one mark_attendance call each, their statements  *)
(* interleaved                                                             *)
(***************************************************************************)
ConcFlags == {f \in Flags : Score(f) \in {0, 30, 100}}

InitConc == InitWith({"pro_v2"}, {TRUE}, {TRUE})

ThreadCall == \E t \in Threads, id \in Ids, f \in ConcFlags : T_Call(t, id, f)

ThreadStep ==
    \E t \in Threads :
       \/ T_RateRead(t)
       \/ T_RateWrite(t)
       \/ T_CheckToday(t)
       \/ T_CheckFace(t)
       \/ T_WriteToday(t)
       \/ T_AppendHistory(t)
       \/ T_RecordAttempt(t)
       \/ T_Save(t)

NextConc == ThreadCall \/ ThreadStep

SpecConc == InitConc /\ [][NextConc]_vars

(***************************************************************************)
(* SpecGallery: enrollment and folder import in attendify_pro_v2, from an  *)
(* empty or an already enrolled gallery                                    *)
(***************************************************************************)
FolderNames == {"alice", "bob"}
FaceCounts == {0, 2, 3}
Person == [name : FolderNames, faces : FaceCounts]

\* the person folders of an import folder, in the order iterdir yields them
Folders == UNION {{s \in [1 .. k -> Person] : \A i, j \in 1 .. k : i # j => s[i].name # s[j].name}
                  : k \in 1 .. MaxPersons}

Labels == 0 .. MaxStudents

InitGallery == InitWith({"pro_v2"}, BOOLEAN, BOOLEAN)

Enroll == \E id \in Ids, name \in {"Alice"}, valid \in 0 .. MaxFrames, train_ok \in BOOLEAN :
             enroll_student(id, name, valid, train_ok)

Import == \/ \E persons \in Folders, train_ok \in BOOLEAN :
                import_existing_data(TRUE, persons, train_ok)
          \/ import_existing_data(FALSE, <<>>, TRUE)

NextGallery == Enroll \/ Import

SpecGallery == InitGallery /\ [][NextGallery]_vars

(***************************************************************************)
(* SpecRecognize: recognition in attendify_pro_v2 against galleries built  *)
(* by enrollment and by imports of one person folder, and recognition in   *)
(* the backend FaceRecognitionService                                      *)
(***************************************************************************)
EnrollFull == \E id \in Ids : enroll_student(id, "Alice", MinSamples, TRUE)

ImportOne == \E p \in Person : import_existing_data(TRUE, <<p>>, TRUE)

Recognize == \/ \E label \in Labels, d \in Distances : recognize_face(FALSE, label, d)
             \/ recognize_face(TRUE, 0, 0)

RecognizeBackend == recognize_face_backend

InitRecognize == InitWith({"pro_v2", "backend"}, BOOLEAN, BOOLEAN)

NextRecognize == EnrollFull \/ ImportOne \/ Recognize \/ RecognizeBackend

SpecRecognize == InitRecognize /\ [][NextRecognize]_vars

(***************************************************************************)
(* SpecPro: enrollment and restarts in attendify_pro                       *)
(***************************************************************************)
InitPro == InitWith({"pro"}, {TRUE}, BOOLEAN)

EnrollPro == \E id \in Ids, name \in Names, valid \in 0 .. MaxFrames, train_ok \in BOOLEAN :
                enroll_student_pro(id, name, valid, train_ok)

NextPro == EnrollPro \/ Restart

SpecPro == InitPro /\ [][NextPro]_vars

(***************************************************************************)
(* Properties of the ledger                                                *)
(***************************************************************************)
\* the durable attendance history of the running variant
History == IF variant = "final" THEN log_files ELSE attendance_history

RecordsOf(hist, id, d) == {i \in 1 .. Len(hist[d]) : hist[d][i].student_id = id}

MarkedOn(id, d) == RecordsOf(History, id, d) # {}

IsMark(id, f) == mark_attendance(id, f) \/ mark(id, f)

\* C1: in every reachable state the attendance history holds at most one
\* record per (identity, calendar day), also after restarts that reload the
\* persisted data.
C1_AtMostOneRecordPerDay ==
    \A d \in Days, id \in Ids : Cardinality(RecordsOf(History, id, d)) <= 1

\* C2: once mark has succeeded for an identity on a day, every later mark
\* call for that identity on that day returns AlreadyMarked and changes
\* neither the attendance records, nor the attempt window, nor the anomaly log.
C2_SecondMarkIsAlreadyMarked ==
    [][\A id \in Ids, f \in Flags :
          (MarkedOn(id, Today) /\ IsMark(id, f))
             => /\ result'.msg = "AlreadyMarked"
                /\ UNCHANGED <<attendance_history, log_files, attempts, anomalies>>]_vars

\* C4 as written: mark with the face flag false fails with FaceRequired and
\* creates no record, for every identity and every combination of the
\* other flags.
C4_FaceFalseIsFaceRequired ==
    [][\A id \in Ids, f \in Flags :
          (~f.face /\ IsMark(id, f))
             => /\ result'.msg = "FaceRequired"
                /\ UNCHANGED <<attendance_today, attendance_history, log_files>>]_vars

\* C4 amended: mark with the face flag false never succeeds and creates no
\* record; it fails with FaceRequired unless an earlier check fails first:
\* RateLimited when the rate guard denies the identity (pro_v2), otherwise
\* AlreadyMarked when the identity is already marked today.
C4_FaceFalseCreatesNoRecord ==
    [][\A id \in Ids, f \in Flags :
          \/ f.face
          \/ /\ ~result'.ok
             /\ UNCHANGED <<attendance_today, attendance_history, log_files, data_file>>
             /\ result'.msg =
                   IF variant = "pro_v2"
                      /\ Cardinality({i \in DOMAIN attempts[id] :
                                         now - attempts[id][i] < 300}) >= 5
                   THEN "RateLimited"
                   ELSE IF id \in DOMAIN attendance_today THEN "AlreadyMarked"
                   ELSE "FaceRequired"
          \/ ~IsMark(id, f)]_vars

\* a mark without the face factor was refused as FaceRequired and left no record
C4_Witness ==
    /\ result.op = "mark"
    /\ result.msg = "FaceRequired"
    /\ ~MarkedOn(result.id, Today)

\* the formula of the score, term by term
Formula(f) ==
    30 * (IF f.face THEN 1 ELSE 0) + 25 * (IF f.liveness THEN 1 ELSE 0)
    + 25 * (IF f.fingerprint THEN 1 ELSE 0) + 20 * (IF f.qr THEN 1 ELSE 0)

\* g has every flag that f has
FlagsLeq(f, g) ==
    /\ f.face => g.face
    /\ f.liveness => g.liveness
    /\ f.fingerprint => g.fingerprint
    /\ f.qr => g.qr

LastRecord(hist, d) == hist[d][Len(hist[d])]

\* C5: for all 16 flag combinations the score is 30*face + 25*liveness +
\* 25*fingerprint + 20*qr, lies in 0..100 and does not decrease when a flag
\* flips to true; the score stored by a successful mark is that value.
C5_ScoreIsWeightedSum ==
    [][(result'.op = "mark" /\ result'.ok)
          => /\ \A f \in Flags :
                   /\ Score(f) = Formula(f)
                   /\ update_score(f) = Formula(f)
                   /\ Score(f) \in 0 .. 100
                   /\ \A g \in Flags : FlagsLeq(f, g) => Score(f) <= Score(g)
             /\ \A f \in Flags :
                   IsMark(result'.id, f)
                      => /\ LastRecord(History', Today).student_id = result'.id
                         /\ LastRecord(History', Today).score = Formula(f)
                         /\ attendance_today'[result'.id].score = Formula(f)]_vars

\* a mark with face, liveness and qr committed a record of score 75
C5_Witness ==
    /\ result.op = "mark" /\ result.ok
    /\ Len(History[Today]) > 0
    /\ LastRecord(History, Today).score = 75

\* the recorded attempts of id that are younger than the window
Recent(id) == {i \in DOMAIN attempts[id] : now - attempts[id][i] < 300}

\* C6: a mark call is denied as RateLimited exactly when 5 attempts of the
\* identity lie within the 300-second window: the 6th is denied, and once
\* fewer than 5 remain inside the window the next call is allowed again.
C6_RateGuard ==
    [][\A id \in Ids, f \in Flags :
          mark_attendance(id, f)
             => (result'.msg = "RateLimited" <=> Cardinality(Recent(id)) >= 5)]_vars

\* after a denial the clock moved on and a further attempt was let through
C6_Witness ==
    /\ Len(anomalies) > 0
    /\ result.op = "mark"
    /\ result.msg = "FaceRequired"
    /\ Len(attempts[result.id]) < 5

\* C3: when two mark calls for the same identity on the same day are
\* interleaved, exactly one of them succeeds, exactly one attendance record
\* results, and the attempt window holds the one attempt of the successful
\* call, as it does when the two calls run one after the other.
C3_InterleavedMarksAgree ==
    (/\ \A t \in Threads : threads[t].pc = "done" /\ threads[t].f.face
     /\ threads[1].id = threads[2].id)
       => /\ threads[1].ok # threads[2].ok
          /\ Cardinality(RecordsOf(attendance_history, threads[1].id, Today)) = 1
          /\ Len(attempts[threads[1].id]) = 1

(***************************************************************************)
(* Properties of the gallery and the recognizer                            *)
(***************************************************************************)
Range(f) == {f[x] : x \in DOMAIN f}

\* C7: recognize returns an identity only if the gallery is not empty, the
\* matcher's label is in the gallery and the distance is below the
\* threshold; with an empty gallery it returns no match without calling
\* the matcher, and a matcher error yields no match.
C7_NoSpuriousIdentity ==
    [][result'.op = "recognize"
          => /\ label_map = EmptyMap => (result'.sid = NoId /\ ~result'.matcher)
             /\ result'.sid # NoId => result'.sid \in Range(label_map)
             /\ \A raises \in BOOLEAN, label \in Labels, d \in Distances :
                   (recognize_face(raises, label, d) /\ result'.sid # NoId)
                      => /\ ~raises
                         /\ label \in DOMAIN label_map
                         /\ label_map[label] = result'.sid
                         /\ d < 850]_vars

\* the persons of an import folder that were added by the step
AddedNames == {students'[x].name : x \in DOMAIN students' \ DOMAIN students}

\* C8 as written: whenever fewer than 3 usable samples are obtained for an
\* identity, through enroll or through folder import, the operation does
\* not add that identity and the gallery (identities and label map) is
\* exactly as before.
C8_TooFewLeavesGalleryAsBefore ==
    [][/\ \A id \in Ids, name \in Names, valid \in 0 .. MaxFrames, ok \in BOOLEAN :
             (enroll_student(id, name, valid, ok) /\ valid < 3)
                => UNCHANGED <<label_map, students>>
       /\ \A persons \in Folders, ok \in BOOLEAN :
             import_existing_data(TRUE, persons, ok)
                => \A i \in DOMAIN persons :
                      persons[i].faces < 3
                         => /\ TitleName(persons[i].name) \notin AddedNames
                            /\ UNCHANGED <<label_map, students>>]_vars

\* C8 amended: whenever fewer than 3 usable samples are obtained for an
\* identity, the operation does not add that identity; enroll leaves the
\* gallery exactly as before, and a folder import changes the gallery only
\* by adding persons of the folder that supplied at least 3 samples (none of
\* them: the gallery is exactly as before).
C8_TooFewIsNotAdded ==
    [][\/ UNCHANGED <<label_map, students>>
       \/ /\ \A id \in Ids, name \in Names, valid \in 0 .. 2, ok \in BOOLEAN :
                ~enroll_student(id, name, valid, ok)
          /\ \/ /\ \A l \in DOMAIN label_map :
                      l \in DOMAIN label_map' /\ label_map'[l] = label_map[l]
                /\ \A x \in DOMAIN students :
                      x \in DOMAIN students' /\ students'[x] = students[x]
                /\ Range(label_map') = DOMAIN students'
                /\ \A persons \in Folders, ok \in BOOLEAN :
                      \/ \A i \in DOMAIN persons :
                            persons[i].faces < 3
                               => TitleName(persons[i].name) \notin AddedNames
                      \/ ~import_existing_data(TRUE, persons, ok)
             \/ \A persons \in Folders, ok \in BOOLEAN :
                   ~import_existing_data(TRUE, persons, ok)]_vars

\* an import obtained fewer than 3 samples for one person (the model holds
\* them, the gallery does not hold the person) and added another person
C8_Witness ==
    /\ result.op = "import" /\ result.ok
    /\ \E b \in model : b.owner \notin DOMAIN students
    /\ \E x \in DOMAIN students : x \notin Ids

\* C9: enrolling an identity that is already present fails with
\* DuplicateIdentity and leaves the gallery, the label map and the
\* recognition model unchanged.
C9_DuplicateIsRefused ==
    [][\A id \in Ids, name \in Names, valid \in 0 .. MaxFrames, ok \in BOOLEAN :
          ((enroll_student(id, name, valid, ok) \/ enroll_student_pro(id, name, valid, ok))
           /\ id \in DOMAIN students)
             => /\ result'.msg = "DuplicateIdentity"
                /\ UNCHANGED <<label_map, students, model>>]_vars

C10_Inv ==
    /\ DOMAIN label_map = 0 .. (Cardinality(DOMAIN label_map) - 1)
    /\ \A k, l \in DOMAIN label_map : label_map[k] = label_map[l] => k = l
    /\ Range(label_map) = DOMAIN students

C10_Step ==
    /\ \A l \in DOMAIN label_map : l \in DOMAIN label_map' /\ label_map'[l] = label_map[l]
    /\ \A l \in DOMAIN label_map' \ DOMAIN label_map : \A k \in DOMAIN label_map : l > k

\* C10: after any sequence of enrollments and imports labels and identities
\* are in one-to-one correspondence: the first label is 0, each new label is
\* max(existing labels)+1 and so greater than every earlier label, no label
\* maps to two identities and no identity holds two labels.
C10_LabelsOneToOne == [] C10_Inv /\ [][C10_Step]_vars

\* an import added an identity to a gallery that already held one
C10_Witness ==
    /\ result.op = "import" /\ result.ok
    /\ Cardinality(DOMAIN label_map) >= 2
    /\ \E x \in DOMAIN students : x \notin Ids

\* C11: after every completed enroll or import, every label the model holds
\* samples of has an enrolled identity in the gallery, and the samples under
\* a label all belong to the identity the label maps to.
C11_ModelSamplesBelongToLabelOwner ==
    (result.op \in {"enroll", "import"} /\ result.ok)
       => \A b \in model :
             /\ b.label \in DOMAIN label_map
             /\ label_map[b.label] = b.owner
             /\ b.owner \in DOMAIN students

(***************************************************************************)
(* SpecLiveness: frames through the liveness detectors of attendify_pro_v2,*)
(* attendify_final and attendify_pro, and detector resets                  *)
(***************************************************************************)
InitLiveness == SystemInit({"pro_v2", "final", "pro"}, {TRUE}, {TRUE}) /\ SessionInit(BOOLEAN)

Frame == \E fr \in Frames : detect_blink(fr)

NextLiveness == Frame \/ reset

SpecLiveness == InitLiveness /\ [][NextLiveness]_vars

\* the frames seen in which a face was found
FaceSeen == SelectSeq(frames_seen, LAMBDA fr : fr.face)

\* the number of frames at the end of s with fewer than 2 eyes
RECURSIVE ClosedRun(_)
ClosedRun(s) ==
    IF s = <<>> \/ s[Len(s)].eyes >= 2 THEN 0
    ELSE 1 + ClosedRun(SubSeq(s, 1, Len(s) - 1))

\* the eye count dropped from >= 2 to < 2 and stayed there for n frames
DroppedFor(s) == IF Len(s) > ClosedRun(s) THEN ClosedRun(s) ELSE 0

\* C12: in the eye-cascade detectors, when the eye count of the face frames
\* dropped from >= 2 to < 2 for at least 2 consecutive frames and rises back
\* to >= 2 outside cooldown, blink_count increases by exactly 1, and a
\* blink_count of 2 makes is_verified true.
C12_BlinkRuleCounts ==
    [][\A fr \in Frames :
          \/ ~(fr.face /\ fr.eyes >= 2)
          \/ variant \notin {"pro_v2", "final"}
          \/ liveness.blink_cooldown > 0
          \/ DroppedFor(FaceSeen) < 2
          \/ /\ liveness'.blink_count = liveness.blink_count + 1
             /\ blink'.is_verified = (liveness'.blink_count >= 2)
          \/ ~detect_blink(fr)]_vars

\* C13: blink_count increases only on a frame in which the eyes are open
\* again after a closure of at least 2 face frames, and then by 1; a single
\* closed frame between open frames never increases it.
C13_OnlyDebouncedReopenCounts ==
    [][\A fr \in Frames :
          \/ /\ liveness'.blink_count <= liveness.blink_count
             /\ ~blink'.blink_detected
          \/ /\ fr.face /\ fr.eyes >= 2
             /\ ClosedRun(FaceSeen) >= 2
             /\ liveness'.blink_count = liveness.blink_count + 1
          \/ ~detect_blink(fr)]_vars

\* a blink was counted on the last frame, after a single-frame flicker
\* earlier in the session went uncounted
C13_Witness ==
    /\ blink.blink_detected
    /\ liveness.blink_count = 1
    /\ \E i \in 1 .. Len(FaceSeen) - 2 :
          FaceSeen[i].eyes >= 2 /\ FaceSeen[i + 1].eyes < 2 /\ FaceSeen[i + 2].eyes >= 2

\* C14: a frame without a face changes no liveness state and reports
\* is_verified as blink_count >= 2 of the count before the frame.
C14_NoFaceFrameChangesNothing ==
    [][\A fr \in Frames :
          \/ fr.face
          \/ /\ liveness' = liveness
             /\ blink'.is_verified = (liveness.blink_count >= 2)
          \/ ~detect_blink(fr)]_vars

(***************************************************************************)
(* SpecQr: QR codes handed out and presented again, on the same day and on *)
(* later days                                                              *)
(***************************************************************************)
InitQr == SystemInit({"pro_v2", "pro"}, {TRUE}, {TRUE}) /\ SessionInit({TRUE})

\* the payloads a scanner can read: genuine ones of any identity and day,
\* one under another namespace, one without a token, one with a part added
PayloadInputs ==
    {QrPayload(id, d) : id \in QrIds, d \in Days}
    \cup {<<Lit("OTHER"), Colon>> \o id \o <<Colon, QrToken(id, d)>> : id \in QrIds, d \in Days}
    \cup {Namespace \o <<Colon>> \o id : id \in QrIds}
    \cup {QrPayload(id, d) \o <<Colon, Lit("x")>> : id \in QrIds, d \in Days}

TokenInputs == {QrToken(id, d) : id \in QrIds, d \in Days}

GenerateQr == \E id \in QrIds : generate_daily_qr(id)

VerifyToken == \E id \in QrIds, token \in TokenInputs : verify_qr_token(id, token)

VerifyPayload == \E id \in QrIds, qr_data \in PayloadInputs : verify_qr(qr_data, id)

NextQr == GenerateQr \/ VerifyToken \/ VerifyPayload \/ NextDay

SpecQr == InitQr /\ [][NextQr]_vars

\* the QR code handed out is presented for the identity it was made for
PresentIssued(id) ==
    /\ qr_issued.issued
    /\ qr_issued.id = id
    /\ \/ verify_qr_token(id, qr_issued.token)
       \/ verify_qr(qr_issued.payload, id)

\* C15: for every identity, the QR token generated on day d1 verifies when
\* today is d1 and fails when today is another day d2.
C15_TokenVerifiesOnItsDayOnly ==
    [][\A id \in QrIds :
          PresentIssued(id) => (result'.ok <=> qr_issued.day = Today)]_vars

\* NAMESPACE:identity_id:token with today's token of that identity
HasExpectedForm(qr_data, id) ==
    qr_data = Namespace \o <<Colon>> \o id \o <<Colon>> \o <<QrToken(id, Today)>>

\* C16: verify_qr(payload, identity_id) is true exactly when the payload is
\* NAMESPACE:identity_id:token with the expected namespace, that identity
\* and today's token; so the payload of generate_daily_qr(identity_id)
\* verifies for that identity on the same day, and any other payload is
\* answered false.
C16_VerifyQrIffExpectedPayload ==
    [][\A id \in QrIds, qr_data \in PayloadInputs :
          verify_qr(qr_data, id) => (result'.ok <=> HasExpectedForm(qr_data, id))]_vars

(***************************************************************************)
(* SpecStorage: marks and enrollments of attendify_pro_v2 while the data   *)
(* directory is at times not writable                                      *)
(***************************************************************************)
\* the data directory stops or starts accepting writes
DiskFault ==
    /\ disk_writable' = ~disk_writable
    /\ result' = Ret("disk", NoId, TRUE, "")
    /\ UNCHANGED <<variant, recognizer_ok, backendVars, threads, sessionVars, now, guardVars, galleryVars,
                   ledgerVars, diskVars, restarts>>

InitStorage == InitWith({"pro_v2"}, {TRUE}, BOOLEAN)

NextStorage == MarkV2 \/ EnrollFull \/ DiskFault

SpecStorage == InitStorage /\ [][NextStorage]_vars

\* C19: when the persistence write fails during enroll or mark, the call
\* does not raise: it returns a result value, and the entry it made in
\* memory stays.
C19_SaveFailureDoesNotRaise ==
    [][(~disk_writable /\ result'.op \in {"mark", "enroll"})
          => /\ ~IsRaise(result')
             /\ \A id \in DOMAIN attendance_today : id \in DOMAIN attendance_today'
             /\ \A id \in DOMAIN students : id \in DOMAIN students']_vars

\* the number of recorded attempts of id younger than 300 s
RecentAttempts(id) ==
    Cardinality({i \in DOMAIN attempts[id] : now - attempts[id][i] < 300})

\* the failure the fixed order of checks gives, "" when all three pass
FirstFailingCheck(id, face) ==
    IF RecentAttempts(id) >= 5 THEN "RateLimited"
    ELSE IF id \in DOMAIN attendance_today THEN "AlreadyMarked"
    ELSE IF ~face THEN "FaceRequired"
    ELSE ""

\* C20: mark_attendance checks the rate limit first, then already-marked,
\* then face-required; the first check that fails gives the returned
\* failure, and a record is appended exactly when all three pass.
C20_ChecksInFixedOrder ==
    [][\/ result'.op # "mark"
       \/ variant # "pro_v2"
       \/ \A face \in BOOLEAN :
             LET id == result'.id
                 failure == FirstFailingCheck(id, face)
             IN \/ /\ result'.ok = (failure = "")
                   /\ ~result'.ok => result'.msg = failure
                   /\ Len(attendance_history'[Today]) =
                         Len(attendance_history[Today]) + (IF result'.ok THEN 1 ELSE 0)
                   /\ (id \in DOMAIN attendance_today') =
                         (id \in DOMAIN attendance_today \/ result'.ok)
                \/ \A f \in Flags : f.face # face \/ ~mark_attendance(id, f)]_vars

\* a mark of an identity that is already marked today, with the face factor
\* missing, was refused as rate limited: the first check decided
C20_Witness ==
    /\ variant = "pro_v2"
    /\ result.op = "mark" /\ result.msg = "RateLimited"
    /\ result.id \in DOMAIN attendance_today
    /\ Len(anomalies) > 0

(***************************************************************************)
(* SpecSession: frames handled and marks submitted in attendify_pro_v2,    *)
(* attendify_desktop and attendance_app, on an enrolled gallery            *)
(***************************************************************************)
InitSession == SystemInit({"pro_v2", "desktop", "app"}, {TRUE}, {TRUE}) /\ SessionInit({TRUE})

\* a near and a far match for every label
SessionDistances == {0, 1200}

\* the worker's steps on a frame: liveness update and recognition
SessionFrame == detect_blink(OpenEyesFrame)

SessionRecognize ==
    \E label \in Labels, d \in SessionDistances : recognize_face(FALSE, label, d)

\* the result lists a frame can carry: no face, or the face just recognized
EmittedFaces == {<<>>} \cup (IF result.op = "recognize" THEN {<<result>>} ELSE {})

ProcessFrame == \E faces \in EmittedFaces : process_frame(faces, blink.is_verified)

ProcessFrameDesktop == \E faces \in EmittedFaces : process_frame_desktop(faces)

UpdateVideo ==
    \E label \in Labels, d \in SessionDistances :
       update_video(<<[raises |-> FALSE, label |-> label, d |-> d]>>)

NextSession ==
    \/ SessionFrame \/ SessionRecognize \/ ProcessFrame \/ ProcessFrameDesktop
    \/ UpdateVideo \/ scan_qr_code \/ submit_verification \/ reset_verification

SpecSession == InitSession /\ [][NextSession]_vars

\* a step of frame processing: detect, recognize, liveness update, dispatch
FrameProcessingStep ==
    \/ SessionFrame \/ SessionRecognize \/ ProcessFrame \/ ProcessFrameDesktop
    \/ UpdateVideo

\* C17: frame processing never creates an attendance record; a record is
\* created only by an explicit mark action of the caller.
C17_FramesCreateNoRecord ==
    [][\/ UNCHANGED <<attendance_today, attendance_history, log_files>>
       \/ ~FrameProcessingStep]_vars

(***************************************************************************)
(* SpecWorker: a camera session of attendify_pro_v2 started and stopped    *)
(* from the GUI while the capture thread runs. The capture thread is       *)
(* scheduled by the operating system and wait() returns when the thread    *)
(* has finished: both are weakly fair; the user's clicks are not           *)
(***************************************************************************)
InitWorker == SystemInit({"pro_v2"}, {TRUE}, {TRUE}) /\ SessionInit({TRUE})

\* the frames the camera delivers: without a face, or with one
WorkerFrames == {NoFaceFrame, OpenEyesFrame}

WorkerStep ==
    \/ W_Open
    \/ W_SetRunning
    \/ W_Test
    \/ \E ret \in BOOLEAN : W_Read(ret)
    \/ \E fr \in WorkerFrames, label \in Labels, d \in SessionDistances : W_Frame(fr, label, d)
    \/ W_Release

NextWorker == start_camera \/ stop_camera \/ stop_returns \/ WorkerStep \/ frame_ready

SpecWorker ==
    InitWorker /\ [][NextWorker]_vars /\ WF_vars(WorkerStep) /\ WF_vars(stop_returns)

\* stop has been requested on a started worker and has not returned
StopRequested == gui_thread = "stop_wait"

\* the worker's loop has exited and the camera handle is released
WorkerStopped == video_worker.pc = "finished" /\ video_worker.cap = "released"

\* C18: whenever stop is requested on a started capture worker, at any
\* point after start, the worker loop exits, the camera handle is released
\* and stop returns.
C18_StopAlwaysCompletes ==
    /\ StopRequested ~> WorkerStopped
    /\ StopRequested ~> (gui_thread = "events")

\* C21: every mark attempt for an identity, whether it succeeds or fails,
\* adds exactly one timestamp (the current time) to that identity's attempt
\* window.
C21_EveryAttemptIsRecorded ==
    [][\A id \in RateIds :
          \/ attempts'[id] = Append(PruneWindow(attempts[id], now), now)
          \/ \A f \in Flags : ~mark_attendance(id, f)]_vars

(***************************************************************************)
(* SpecAnomaly: the anomaly log of attendify_pro_v2 as marks are denied    *)
(* and the log is queried                                                  *)
(***************************************************************************)
\* the counts asked for: none, fewer than, as many as and more than logged
AnomalyCounts == 0 .. MaxAnomalies + 1

RecentAnomalies == \E count \in AnomalyCounts : recent_anomalies(count)

NextAnomaly == MarkRate \/ Tick \/ RecentAnomalies

SpecAnomaly == InitRate /\ [][NextAnomaly]_vars

\* the log before a step is the beginning of the log after it
IsPrefix(s, t) == Len(s) <= Len(t) /\ SubSeq(t, 1, Len(s)) = s

C22_AppendOnly ==
    /\ IsPrefix(anomalies, anomalies')
    /\ \A id \in RateIds :
          \/ result'.msg # "RateLimited"
          \/ \A f \in Flags : ~mark_attendance(id, f)
          \/ anomalies' = Append(anomalies, AnomalyEntry(id, "RATE_LIMIT"))

C22_MostRecentFirst ==
    result.op = "anomalies" =>
       LET n == Min2(result.count, Len(anomalies))
       IN /\ Len(result.entries) = n
          /\ \A i \in 1 .. n : result.entries[i] = anomalies[Len(anomalies) - i + 1]

\* C22: the anomaly log is append-only, each rate-limit denial appends one
\* RATE_LIMIT entry, and get_recent_anomalies(count) returns at most count
\* entries, the most recent ones, newest first, for every count >= 0.
C22_AnomalyLog == [] C22_MostRecentFirst /\ [][C22_AppendOnly]_vars

\* a face frame went through the detector in this step
FaceFrameStep ==
    /\ Len(frames_seen') = Len(frames_seen) + 1
    /\ frames_seen'[Len(frames_seen')].face

C23_CooldownStep ==
    FaceFrameStep =>
       /\ liveness'.blink_count > liveness.blink_count
             => liveness'.blink_cooldown = BlinkCooldown
       /\ liveness.blink_cooldown > 0
             => /\ liveness'.blink_count = liveness.blink_count
                /\ liveness'.blink_cooldown = liveness.blink_cooldown - 1

\* no second blink is counted within the 10 face frames after a counted one
C23_NoCountInCooldown ==
    Len(FaceSeen) <= BlinkCooldown + 1 => liveness.blink_count <= 1

\* C23: after a blink is counted the detector enters a 10-frame cooldown:
\* blink_count does not change during the 10 face frames following a counted
\* blink, and the cooldown decreases by exactly 1 per face frame until it
\* reaches 0.
C23_CooldownAfterBlink == [] C23_NoCountInCooldown /\ [][C23_CooldownStep]_vars

\* a freshly constructed detector fed the frames of s, one after the other
RECURSIVE FreshRun(_)
FreshRun(s) ==
    IF s = <<>>
    THEN [lv |-> NewLiveness(liveness.face_mesh), ret |-> BlinkRet(FALSE, 0, FALSE)]
    ELSE DetectorStep(FreshRun(SubSeq(s, 1, Len(s) - 1)).lv, s[Len(s)])

\* the counters of LivenessState
Counters(lv) == <<lv.blink_count, lv.no_eye_frames, lv.blink_cooldown, lv.consecutive_frames>>

\* the detector counts, and reports, what a fresh detector would after the
\* frames seen since the last reset
C24_SameAsFresh ==
    /\ liveness.blink_count = FreshRun(frames_seen).lv.blink_count
    /\ IsVerified(liveness) = IsVerified(FreshRun(frames_seen).lv)
    /\ frames_seen # <<>> =>
          /\ blink.count = FreshRun(frames_seen).ret.count
          /\ blink.is_verified = FreshRun(frames_seen).ret.is_verified

C24_ResetClears ==
    \/ Counters(liveness') = Counters(NewLiveness(liveness.face_mesh))
    \/ ~reset

AttemptFrame ==
    \E label \in DOMAIN label_map, d \in SessionDistances : W_Frame(OpenEyesFrame, label, d)

CaptureStep ==
    \/ W_Open
    \/ W_SetRunning
    \/ W_Test
    \/ W_Read(TRUE)
    \/ AttemptFrame

NextAttempt ==
    \/ start_camera \/ CaptureStep \/ frame_ready
    \/ simulate_fingerprint \/ complete_fingerprint \/ scan_qr_code
    \/ submit_verification \/ reset_verification

SpecAttempt == InitWorker /\ [][NextAttempt]_vars

\* the event loop delivers something scheduled or emitted before the last
\* reset: a fingerprint timer, or a frame result
StaleDelivery ==
    \/ fingerprint_timers # <<>> /\ Head(fingerprint_timers).stale /\ complete_fingerprint
    \/ signals # <<>> /\ Head(signals).stale /\ frame_ready

\* reset_verification has run in this step, by itself or after a mark
ResetStep == reset_verification \/ (result'.ok /\ submit_verification)

C25_Step ==
    /\ \/ current_student' = NoId /\ verification_state' = NoFlags
       \/ ~ResetStep
    /\ \/ current_student' = current_student /\ verification_state' = verification_state
       \/ ~StaleDelivery

\* C25: after reset_verification, explicit or performed after a successful
\* mark, the current identity and all four factor flags are cleared, and
\* neither a fingerprint timer started before the reset nor a frame result
\* emitted before it sets the identity or any flag of the new attempt.
C25_ResetIsolatesAttempts == [][C25_Step]_vars

\* the flags that were set under the identity id
FlagsOf(id) ==
    [face |-> verification_state.face /\ flag_owner.face = id,
     liveness |-> verification_state.liveness /\ flag_owner.liveness = id,
     fingerprint |-> verification_state.fingerprint /\ flag_owner.fingerprint = id,
     qr |-> verification_state.qr /\ flag_owner.qr = id]

\* C26: the factor flags of an attempt belong to one identity: the score of
\* a committed record counts only flags that were set while the identity
\* being marked was the attempt's identity; flags set for A do not count
\* toward B's record when the recognized identity changes without a reset.
C26_FlagsBelongToTheMarkedIdentity ==
    [][\/ current_student = NoId
       \/ ~result'.ok
       \/ ~submit_verification
       \/ attendance_today'[current_student].score = Score(FlagsOf(current_student))]_vars

(***************************************************************************)
(* SpecPanel: the verification panel of attendify_pro_v2: frames handled,  *)
(* the three other factors scanned, marks submitted and the panel reset    *)
(***************************************************************************)
InitPanel == SystemInit({"pro_v2"}, {TRUE}, {TRUE}) /\ SessionInit({TRUE})

NextPanel ==
    \/ SessionRecognize \/ ProcessFrame
    \/ scan_qr_code \/ simulate_fingerprint \/ complete_fingerprint
    \/ submit_verification \/ reset_verification

SpecPanel == InitPanel /\ [][NextPanel]_vars

\* some factor flag that was true is false after the step
FlagDropped ==
    \/ verification_state.face /\ ~verification_state'.face
    \/ verification_state.liveness /\ ~verification_state'.liveness
    \/ verification_state.fingerprint /\ ~verification_state'.fingerprint
    \/ verification_state.qr /\ ~verification_state'.qr

\* C27: within one verification attempt each factor flag is monotonic: once
\* set to true by a factor event it never becomes false again except
\* through an explicit reset (reset_verification, also as called after a
\* successful mark).
C27_FlagsAreMonotonic ==
    [][~FlagDropped \/ ResetStep]_vars

\* three factors are set for the recognized student, each by its own event,
\* and stay set when a later frame shows a face that is not recognized
C27_Witness ==
    /\ current_student # NoId
    /\ verification_state.face /\ verification_state.fingerprint /\ verification_state.qr
    /\ flag_owner.fingerprint = current_student
    /\ result.op = "recognize" /\ result.sid = NoId

(***************************************************************************)
(* SpecEnrollConc: the GUI thread enrolls students in attendify_pro_v2     *)
(* while the capture thread recognizes faces                               *)
(***************************************************************************)
InitEnrollConc == InitWith({"pro_v2"}, {TRUE}, {FALSE})

\* the GUI thread is the first of the callers
GuiThread == CHOOSE t \in Threads : \A u \in Threads : t <= u

EnrollCall == \E id \in Ids, name \in {"Alice"} : E_Call(GuiThread, id, name)

EnrollStep ==
    \/ \E train_ok \in BOOLEAN : E_Train(GuiThread, train_ok)
    \/ E_LabelMap(GuiThread)
    \/ E_Students(GuiThread)
    \/ E_Save(GuiThread)

\* the capture thread's recognize_face call on a face of a frame
WorkerRecognize ==
    \E label \in Labels, d \in SessionDistances : recognize_face(FALSE, label, d)

NextEnrollConc == EnrollCall \/ EnrollStep \/ WorkerRecognize

SpecEnrollConc == InitEnrollConc /\ [][NextEnrollConc]_vars

\* the model, the label map and the student records hold the same identities
GalleryAgrees ==
    /\ ModelLabels = DOMAIN label_map
    /\ {label_map[l] : l \in DOMAIN label_map} = DOMAIN students

\* C28: enrollment's mutations of the gallery and the model are mutually
\* exclusive with the worker's recognition reads: no recognize call sees the
\* model holding a new label's samples while the label map or the student
\* records do not hold the new identity, or the other way round.
C28_RecognizeSeesWholeEnrollments ==
    [][GalleryAgrees \/ ~WorkerRecognize]_vars


(***************************************************************************)
(* SpecCapture: the capture thread of attendify_pro_v2 with frames that    *)
(* cannot be read and frame-processing steps that raise                    *)
(***************************************************************************)
NextCapture ==
    start_camera \/ stop_camera \/ stop_returns \/ WorkerStep \/ W_Raise \/ frame_ready

SpecCapture == InitWorker /\ [][NextCapture]_vars

\* run has returned or has been left by an exception
WorkerExited == video_worker.exists /\ video_worker.pc = "finished"

\* C29: the camera handle acquired by the capture worker is released on
\* every exit path of the worker, including when a frame-processing step
\* fails abnormally and when no frame can be read.
C29_ReleasedOnEveryExit == WorkerExited => video_worker.cap = "released"


(***************************************************************************)
(* SpecTrain: the recognition model of attendify_pro_v2 across             *)
(* enrollments, folder imports and starts of the process                   *)
(***************************************************************************)
StartupLoad == \E read_ok \in BOOLEAN : Startup(read_ok)

\* an import of a folder that holds one person folder
ImportFolder == \E p \in Person, train_ok \in BOOLEAN : import_existing_data(TRUE, <<p>>, train_ok)

NextTrain == Enroll \/ ImportFolder \/ StartupLoad

SpecTrain == InitGallery /\ [][NextTrain]_vars

\* an enroll_student call that reached recognizer.train / update and did
\* not fail there
EnrollTrains == result'.op = "enroll" /\ result'.msg \in {"Enrolled", "OSError"}

\* the samples the model holds for the identities that are enrolled
EnrolledSamples == {b \in model : b.label \in DOMAIN label_map}

\* C30 as stated: enroll performs a full train exactly when the model has
\* never been trained (also after startup load) and an incremental update
\* otherwise, so that after any enrollment or import every previously
\* enrolled identity's samples are still in the model.
C30_FullTrainIffNeverTrained ==
    [][/\ EnrollTrains => (EnrollIncremental <=> model # {})
       /\ result'.op \in {"enroll", "import"} => EnrolledSamples \subseteq model']_vars

\* C30: enroll performs a full train exactly when no identity is enrolled
\* (the label map is empty) and an incremental update otherwise, so that
\* after any enrollment or import the samples the model held for every
\* previously enrolled identity are still in the model.
C30_EnrolledSamplesAreKept ==
    [][result'.op \in {"enroll", "import"} => EnrolledSamples \subseteq model']_vars

\* after a start that loaded the gallery, a second identity has been
\* enrolled into a model that holds both identities' samples
C30_Witness ==
    /\ restarts > 0
    /\ result.op = "enroll" /\ result.ok
    /\ Cardinality(DOMAIN label_map) = 2
    /\ ModelLabels = DOMAIN label_map


(***************************************************************************)
(* SpecConfidence: recognition in attendify_pro_v2 and attendify_final     *)
(* over the distances predict can answer with                              *)
(***************************************************************************)
\* distances in tenths, 1.7 apart, from 0 to beyond both thresholds and 100
ConfDistances == {17 * k : k \in 0 .. MaxDistances}

InitConfidence == InitWith({"pro_v2", "final"}, {TRUE}, BOOLEAN)

RecognizeV2 ==
    \E raises \in BOOLEAN, label \in Labels, d \in ConfDistances : recognize_face(raises, label, d)

RecognizeFinalDb ==
    \E raises \in BOOLEAN, label \in Labels, d \in ConfDistances : recognize(raises, label, d)

NextConfidence == RecognizeV2 \/ RecognizeFinalDb

SpecConfidence == InitConfidence /\ [][NextConfidence]_vars

\* max(0, 100 - distance) truncated to an integer, in tenths of a percent
ExpectedConfidence(d) == IntOf(IF 1000 - d > 0 THEN 1000 - d ELSE 0)

\* C31: for every accepted match the reported confidence equals
\* max(0, 100 - distance) truncated to an integer and lies in 0..100; for
\* every non-match the reported confidence is 0.
C31_ConfidenceOfDistance ==
    [][\A raises \in BOOLEAN, label \in Labels, d \in ConfDistances :
          \/ IF result'.sid # NoId
             THEN result'.conf = ExpectedConfidence(d) /\ result'.conf \in 0 .. 1000
             ELSE result'.conf = 0
          \/ result' # RecognizeFace(raises, label, d) /\ result' # RecognizeFinal(raises, label, d)
          \/ ~(recognize_face(raises, label, d) \/ recognize(raises, label, d))]_vars

\* attendify_final has accepted a match at distance 3.4 and reports 96
C31_Witness ==
    variant = "final" /\ result.op = "recognize" /\ result.sid # NoId /\ result.conf = 960


(***************************************************************************)
(* SpecDurable: marks of attendify_pro_v2 across day changes, restarts of  *)
(* the process and a data directory that is at times not writable          *)
(***************************************************************************)
\* marks of one identity with the face factor
MarkDurable == \E id \in RateIds, f \in FaceFlags : mark_attendance(id, f)

NextDurable == MarkDurable \/ DiskFault \/ Restart \/ NextDay

SpecDurable == InitStorage /\ [][NextDurable]_vars

\* mark_attendance has just returned success
MarkReturnedSuccess == result.op = "mark" /\ result.ok

\* when mark has returned success the data file holds a record of the
\* identity for today
C32_StoredOnReturn ==
    MarkReturnedSuccess =>
        data_file.exists /\ RecordsOf(data_file.history, result.id, Today) # {}

\* a restart right after a successful mark loads a history with the record
C32_ReloadedAfterRestart ==
    \/ ~MarkReturnedSuccess
    \/ RecordsOf(attendance_history', result.id, Today) # {}
    \/ ~Restart

\* C32: each successful mark is durable before it returns: at the moment
\* mark returns success the persisted store already contains the new
\* record, so a process restart immediately afterwards reloads a history
\* that includes it.
C32_MarkIsDurable == [] C32_StoredOnReturn /\ [][C32_ReloadedAfterRestart]_vars

\* the process was restarted right after a successful mark and the record
\* is in the reloaded history while nobody is marked in memory
C32_Witness ==
    /\ result.op = "restart"
    /\ attendance_today = EmptyMap
    /\ \E id \in Ids : RecordsOf(attendance_history, id, Today) # {}


(***************************************************************************)
(* SpecCsv: a sequence of POST /mark requests to the simple attendance     *)
(* endpoint of the backend                                                 *)
(***************************************************************************)
\* the names a, "a,b", "a (a quote and an a), and a quoted "a"
CsvNames == {<<"a">>, <<"a", Comma, "b">>, <<Quote, "a">>, <<Quote, "a", Quote>>}

\* the request's timestamp: none, one that does not parse, or an ISO text
Timestamps == {[kind |-> "none", day |-> 0], [kind |-> "bad", day |-> 0]}
                  \cup {[kind |-> "iso", day |-> d] : d \in Days}

InitCsv == InitWith({"backend"}, {TRUE}, {FALSE})

SimpleMark == \E name \in CsvNames, ts \in Timestamps : simple_mark(name, ts)

NextCsv == SimpleMark

SpecCsv == InitCsv /\ [][NextCsv]_vars

\* the rows of the file that were written for (name, day)
RowsFor(csv, name, day) ==
    {i \in DOMAIN csv.lines : csv.lines[i].name = name /\ csv.lines[i].day = day}

C33_AtMostOneRow ==
    \A name \in CsvNames, day \in Days : Cardinality(RowsFor(attendance_csv, name, day)) <= 1

C33_Step ==
    \/ result'.op # "simple_mark"
    \/ UNCHANGED vars
    \/ LET name == result'.name
           day == result'.day
       IN
       IF RowsFor(attendance_csv, name, day) # {}
       THEN result'.duplicate /\ UNCHANGED attendance_csv
       ELSE /\ ~result'.duplicate
            /\ Len(attendance_csv'.lines) = Len(attendance_csv.lines) + 1
            /\ Cardinality(RowsFor(attendance_csv', name, day)) = 1

FaceConfidences == {0, 699, 700, 985}

\* a fingerprint hash given or stored: None, empty, or one of two hashes
Hashes == {None, "", "h1", "h2"}

\* an RFID tag given or stored: None, empty, or a tag in either case
Tags == {None, "", "ab", "AB", "cd"}

MultiFactorVerify ==
    \E student_id \in Ids, face_verified \in BOOLEAN, face_confidence \in FaceConfidences,
       fingerprint_hash \in Hashes, stored_fingerprint \in Hashes,
       rfid_tag \in Tags, stored_rfid \in Tags :
        multi_factor_verify(student_id, face_verified, face_confidence, fingerprint_hash,
                            stored_fingerprint, rfid_tag, stored_rfid)

InitMultiFactor == InitWith({"backend"}, {TRUE}, {TRUE})

NextMultiFactor == MultiFactorVerify

SpecMultiFactor == InitMultiFactor /\ [][NextMultiFactor]_vars

\* the face factor is among the verified factors of a result
FacePassed(r) == \E i \in DOMAIN r.factors : r.factors[i].method = "face" /\ r.factors[i].verified

\* C34: multi-factor verification marks an attendance valid only when face
\* recognition passed and at least one of fingerprint or RFID passed: for
\* every input, is_valid is true only if the face factor is among the
\* verified factors and factors_passed >= 2.
C34_ValidNeedsFace ==
    (result.op = "multi_factor_verify" /\ result.is_valid)
        => (FacePassed(result) /\ result.factors_passed >= 2)


(***************************************************************************)
(* SpecAttention: the attention tracker of the backend over frames with    *)
(* up to MaxFaces faces                                                    *)
(***************************************************************************)
\* a face with closed eyes, with one eye closed, and with open eyes
AttentionFaces == {[left_ear |-> 15, right_ear |-> 15], [left_ear |-> 15, right_ear |-> 28],
                   [left_ear |-> 28, right_ear |-> 28]}

AttentionFrames == UNION {[1 .. k -> AttentionFaces] : k \in 0 .. MaxFaces}

AnalyzeFrame ==
    \E mediapipe \in BOOLEAN, faces \in AttentionFrames : analyze_frame(mediapipe, faces)

InitAttention == InitWith({"backend"}, {TRUE}, {TRUE})

NextAttention == AnalyzeFrame

SpecAttention == InitAttention /\ [][NextAttention]_vars

\* C35: attention tracking reports is_drowsy for a face only if that same
\* face's eye aspect ratio was below the threshold in each of the last 20
\* consecutive analysed frames; low-EAR observations of other faces in the
\* frame do not contribute to it.
C35_DrowsyIsPerFace ==
    result.op = "analyze_frame" =>
        \A i \in DOMAIN result.metrics :
            result.metrics[i].is_drowsy => (i \in FacePositions /\ low_ear_run[i] >= DrowsyFrames)


\* a denied call leaves the attempt list without a new timestamp
C36_DenialAddsNothing ==
    \A id \in RateIds :
        \/ attempts'[id] = PruneWindow(attempts[id], now)
        \/ result'.msg # "RateLimited"
        \/ \A f \in Flags : ~mark_attendance(id, f)

\* whatever was denied before, a call is let through the rate guard when
\* fewer than 5 recorded attempts are younger than 300 seconds
C36_AllowedAgain ==
    \A id \in RateIds :
        \/ RecentAttempts(id) >= 5
        \/ result'.msg # "RateLimited"
        \/ \A f \in Flags : ~mark_attendance(id, f)

\* C36: a mark call that is denied by the rate limit adds no timestamp to
\* the attempt window: however many denied calls are made, the identity
\* becomes allowed again as soon as fewer than 5 recorded attempts are
\* younger than 300 seconds (denials never extend the lockout).
C36_DenialsDoNotExtendLockout == [][C36_DenialAddsNothing /\ C36_AllowedAgain]_vars

\* after two denials the first five attempts have left the window and a
\* call was let through the rate guard
C36_Witness ==
    /\ Len(anomalies) >= 2
    /\ result.op = "mark" /\ result.id \in RateIds
    /\ result.msg = "FaceRequired"
    /\ attempts[result.id] = <<now>>


\* C37: the already-marked check is scoped to the current calendar day:
\* within one running process an identity that was marked on day D and is
\* not rate limited can be marked successfully on day D+1 with face
\* verified (mark fails as already marked only if a record exists for that
\* identity and today's date).
C37_AlreadyMarkedIsPerDay ==
    [][\/ result'.op # "mark"
       \/ result'.msg # "AlreadyMarked"
       \/ MarkedOn(result'.id, Today)]_vars


(***************************************************************************)
(* SpecIsolation: two runs of attendify_pro_v2 side by side. Both make the *)
(* same mark_attendance calls for one identity at the same times; the      *)
(* calls for the other identity are made by each run on its own.           *)
(***************************************************************************)
Compared == S1
Other == S2

\* the bound on the second run's own calls for the other identity
MaxOther == 1

\* AttendanceSystem.mark_attendance as a function of what it reads: the
\* attempt lists att, the identities marked today, the clock t and the call
Mark2(att, today, t, id, f) ==
    LET pruned == PruneWindow(att[id], t) IN
    IF OverCap(pruned)
    THEN [attempts |-> [att EXCEPT ![id] = Denied(pruned, t)], today |-> today,
          ok |-> FALSE, msg |-> "RateLimited"]
    ELSE IF id \in today
    THEN [attempts |-> [att EXCEPT ![id] = pruned], today |-> today,
          ok |-> FALSE, msg |-> "AlreadyMarked"]
    ELSE IF FaceMissing(f)
    THEN [attempts |-> [att EXCEPT ![id] = Append(pruned, t)], today |-> today,
          ok |-> FALSE, msg |-> "FaceRequired"]
    ELSE [attempts |-> [att EXCEPT ![id] = Append(pruned, t)], today |-> today \cup {id},
          ok |-> TRUE, msg |-> "Verified"]

\* the second run makes the call mark_attendance(id, f)
run2_mark(id, f) ==
    LET r == Mark2(run2_attempts, run2_today, now, id, f) IN
    /\ run2_attempts' = r.attempts
    /\ run2_today' = r.today
    /\ run2_result' = IF id = Compared THEN Ret("mark", id, r.ok, r.msg) ELSE run2_result

\* both runs make the same call for the compared identity
PairedMark ==
    \E f \in RateFlags :
        /\ mark_attendance_body(Compared, f)
        /\ run2_mark(Compared, f)
        /\ UNCHANGED sessionVars

\* the first run alone makes a call for the other identity
OtherMark == \E f \in RateFlags : mark_attendance(Other, f)

\* the second run alone makes a call for the other identity
OtherMark2 ==
    \E f \in RateFlags :
        /\ variant = "pro_v2"
        /\ Len(run2_attempts[Other]) < MaxOther
        /\ run2_mark(Other, f)
        /\ UNCHANGED <<variant, recognizer_ok, serviceVars, threads, sessionVars, disk_writable,
                       now, guardVars, galleryVars, ledgerVars, diskVars, restarts, result>>

\* the clock of both runs advances by the whole rate window
WindowPasses ==
    /\ TimeOfDay + RateWindow <= MaxTick * TickSeconds
    /\ now' = now + RateWindow
    /\ result' = Ret("tick", NoId, TRUE, "")
    /\ UNCHANGED <<buildVars, guardVars, galleryVars, ledgerVars, diskVars, restarts>>

InitIsolation == InitWith({"pro_v2"}, {TRUE}, {TRUE})

NextIsolation == PairedMark \/ OtherMark \/ OtherMark2 \/ WindowPasses

SpecIsolation == InitIsolation /\ [][NextIsolation]_vars

\* C38: rate limiting and marking are isolated per identity: in two runs that
\* make the same calls for one identity at the same times and differ only in
\* the calls made for another identity, every mark_attendance call for the
\* first identity, and the check_rate_limit inside it, has the same outcome
\* in both runs.
C38_SameOutcomeInBothRuns ==
    (result.op = "mark" /\ result.id = Compared)
        => /\ result.ok = run2_result.ok
           /\ result.msg = run2_result.msg
           /\ attempts[Compared] = run2_attempts[Compared]
           /\ (Compared \in DOMAIN attendance_today) = (Compared \in run2_today)

\* the first run has marked the other identity and then rate limited it, the
\* second run has no call for it at all, and the compared identity is verified
C38_Witness ==
    /\ result.op = "mark" /\ result.id = Compared /\ result.ok
    /\ Other \in DOMAIN attendance_today
    /\ RateLimited(Other)
    /\ \E i \in DOMAIN anomalies : anomalies[i].student_id = Other
    /\ run2_attempts[Other] = <<>>
    /\ Other \notin run2_today


\* the scores of the records committed so far: today's map and the per-day
\* history (pro_v2) or log files (final)
CommittedScores ==
    {attendance_today[id].score : id \in DOMAIN attendance_today}
        \cup UNION {{History[d][i].score : i \in DOMAIN History[d]} : d \in Days}

C39_ScoreOfFaceRecord == CommittedScores \subseteq {30, 50, 55, 75, 80, 100}

\* the records a step commits
Committed ==
    \/ Len(History'[Today]) > Len(History[Today])
    \/ DOMAIN attendance_today' # DOMAIN attendance_today

C39_CreatedWithFace ==
    \A id \in Ids, f \in Flags : f.face \/ ~Committed \/ ~IsMark(id, f)

\* C39: every committed attendance record was created by a mark whose face
\* factor was true, so its score is one of 30, 50, 55, 75, 80 or 100 and
\* never below 30.
C39_CommittedRecordsHaveFace ==
    [] C39_ScoreOfFaceRecord /\ [][C39_CreatedWithFace]_vars

\* records with and without the other factors are committed, one of them for
\* an identity whose earlier mark without the face factor was refused
C39_Witness ==
    /\ result.op = "mark" /\ result.ok
    /\ {30, 75} \subseteq CommittedScores
    /\ \E id \in DOMAIN attendance_today : Len(attempts[id]) >= 2

====
